---- MODULE Spec2Model ----
(***************************************************************************)
(* Model of the windowed, parallel ingestion of fmriprep_stats:             *)
(*   - the window planner and the thread-pool scheduler of                  *)
(*     api.parallel_fetch,                                                  *)
(*   - the page fetcher api.fetch_window (request, retry, dedup, insert,    *)
(*     Link-header pagination).                                             *)
(* Instants are integers counted in ticks, TicksPerDay ticks to the day.    *)
(* Python's None and every other falsy value the code only tests for truth  *)
(* (max_workers, cached_limit, max_errors) are the integer 0; an absent     *)
(* cursor, link or header field is the string NONE.                         *)
(***************************************************************************)
EXTENDS Integers, Sequences, FiniteSets, TLC

\* ------------------------------------------------------------------ bounds
TicksPerDay == 2      \* resolution of the clock
MaxDays == 3          \* the planner's range lies inside [0, MaxDays] days
MaxChunk == 2         \* days_per_chunk is drawn from 1..MaxChunk
MaxIds == 1           \* event ids are 1..MaxIds
MaxPageLen == 2       \* the server puts at most this many events on a page
MaxPages == 3         \* the server serves at most this many pages to a call
CpuCount == 2         \* os.cpu_count() of the host
MaxJobs == 2          \* max_workers is drawn from 0..MaxJobs
MaxLimit == 2         \* cached_limit is drawn from 0..MaxLimit
MaxErrArg == 1        \* max_errors is drawn from 0..MaxErrArg
PoolDays == 2         \* range of the scheduler runs, in days
MaxBatch == 3         \* events in a batch handed to filter_new
MaxDocs == 3          \* documents the cursor of a migration yields
MaxBatchSize == 2     \* --batch-size is drawn from 1..MaxBatchSize
MaxFields == 2        \* top-level fields of a document, its tags aside
MaxTags == 1          \* tags of a document
MaxAdds == 3          \* calls of ManifestCache.add in a run
MaxThreshold == 2     \* flush_threshold is drawn from 0..MaxThreshold
MaxCrashes == 1       \* times the process dies in a run
MaxSource == 2        \* documents of the collection a migration reads
MaxRuns == 2          \* runs of the migration over one dataset root
MaxRows == 2          \* rows of a batch written to a partition
MaxDate == 2          \* days a date option may name (0: option not given)
MaxEvents == 2        \* event types a command goes through
MaxCal == 3           \* calendar days of the export (0: date not given)
MaxEntries == 2       \* entries in one call of _write_manifest
MaxCalls == 2         \* calls of the functions of db.py before the fetch
MaxReq == 4           \* responses the server gives to the two fetchers

\* --------------------------------------------------------- program constants
DEFAULT_MAX_ERRORS == 5
DEFAULT_DAYS_WINDOW == 90

NONE == "None"
Ids == 1..MaxIds
MaxT == MaxDays * TicksPerDay
Cursors == {"c1", "c2"}

\* the collection before a run: empty, or holding event 1 from an earlier run
StoredBefore == {{}, {1}}

VARIABLES
    since, until, days_per_chunk,   \* arguments of parallel_fetch
    max_workers, cached_limit, max_errors,
    pf_pc,                          \* position of parallel_fetch
    cur, windows,                   \* locals of the planner loop
    sum_new, sum_total,             \* the aggregate
    submitted,                      \* number of futures submitted to the pool
    collected,                      \* futures consumed by the as_completed loop
    fw,                             \* locals of each window's fetch_window call
    db,                             \* ids in the Mongo collection of the event
    db0,                            \* the collection as it was when the run began
    fn,                             \* one call of filter_new
    nd,                             \* one document through _normalize_event
    mg,                             \* the migration of one Mongo collection
    mc,                             \* a manifest file and its ManifestCache objects
    cli,                            \* one run of a command-line entry point
    rq                              \* the two page fetchers on one server

argVars == <<since, until, days_per_chunk, max_workers, cached_limit, max_errors>>
planVars == <<cur, windows>>
poolVars == <<sum_new, sum_total, submitted, collected>>
restVars == <<mc, cli, rq>>
auxVars == <<db0, fn, nd, mg, mc, cli, rq>>
fetchVars == <<since, until, days_per_chunk, max_workers, cached_limit,
               max_errors, pf_pc, cur, windows, sum_new, sum_total, submitted,
               collected, fw, db, db0>>
vars == <<since, until, days_per_chunk, max_workers, cached_limit, max_errors,
          pf_pc, cur, windows, sum_new, sum_total, submitted, collected, fw, db,
          db0, fn, nd, mg, mc, cli, rq>>

\* the parts of the program a run does not enter
FN_Idle == [pc |-> "idle"]
ND_Idle == [pc |-> "idle"]
MG_Idle == [pc |-> "idle"]
MC_Idle == [pc |-> "idle"]
CLI_Idle == [pc |-> "idle"]
RQ_Idle == [pc |-> "idle"]

Max(a, b) == IF a >= b THEN a ELSE b

\* -------------------------------------------------------------- the planner
\* the window start without the clip to since
NextStart_NoClip(c, s, chunk) == c - chunk * TicksPerDay

\* the window start with the chunk taken in ticks instead of days
NextStart_Ticks(c, s, chunk) == Max(c - chunk, s)

\* nxt = max(cur - timedelta(days=days_per_chunk), since)
NextStart(c, s, chunk) == Max(c - chunk * TicksPerDay, s)

\* the loop test that takes the empty range for a window
PlanMore_Inclusive(c, s) == c >= s

\* while cur > since
PlanMore(c, s) == c > s

\* one iteration of the planner loop
PF_PlanStep ==
    /\ pf_pc = "plan"
    /\ PlanMore(cur, since)
    /\ windows' = Append(windows, <<NextStart(cur, since, days_per_chunk), cur>>)
    /\ cur' = NextStart(cur, since, days_per_chunk)
    /\ UNCHANGED <<auxVars, argVars, pf_pc, poolVars, fw, db>>

\* the loop condition fails: the plan is complete
PF_PlanExit ==
    /\ pf_pc = "plan"
    /\ ~PlanMore(cur, since)
    /\ pf_pc' = "submit"
    /\ UNCHANGED <<auxVars, argVars, planVars, poolVars, fw, db>>

\* size of the thread pool: the host's CPU count when max_workers is unset
\* or below 1
PoolSize(jobs) == IF jobs = 0 \/ jobs < 1 THEN CpuCount ELSE jobs

\* state at the entry of parallel_fetch; max_workers is the argument, the
\* pool is built with PoolSize(max_workers)
PF_Entry(s, u, chunk, jobs, limit, maxerr) ==
    /\ since = s /\ until = u /\ days_per_chunk = chunk
    /\ max_workers = jobs
    /\ cached_limit = limit
    /\ max_errors = maxerr
    /\ pf_pc = "plan"
    /\ cur = u
    /\ windows = <<>>
    /\ sum_new = 0 /\ sum_total = 0
    /\ submitted = 0
    /\ collected = {}
    /\ fw = <<>>

PlanInit ==
    /\ \E s \in 0..MaxT, u \in 0..MaxT, chunk \in 1..MaxChunk :
          PF_Entry(s, u, chunk, 0, 0, 0)
    /\ db = {} /\ db0 = db
    /\ fn = FN_Idle /\ nd = ND_Idle /\ mg = MG_Idle
    /\ mc = MC_Idle /\ cli = CLI_Idle /\ rq = RQ_Idle

PlanNext == PF_PlanStep \/ PF_PlanExit

SpecPlan == PlanInit /\ [][PlanNext]_vars

\* the plan is complete once the planner loop has been left
Planned == pf_pc # "plan"

\* instant t lies in window i of the plan
InWindow(t, i) == windows[i][1] <= t /\ t < windows[i][2]

\* instants around the requested range, far enough to see any overshoot
Instants == (0 - MaxChunk * TicksPerDay - 1)..(MaxT + 1)

\* C1: for since < until and days_per_chunk >= 1 the planned windows are
\* half-open intervals with start < end, are pairwise disjoint, and an
\* instant lies in one of them exactly when it lies in [since, until)
C1_WindowCoverage ==
    (Planned /\ since < until /\ days_per_chunk >= 1) =>
        /\ \A i \in DOMAIN windows : windows[i][1] < windows[i][2]
        /\ \A i, j \in DOMAIN windows :
              i # j => (windows[i][2] <= windows[j][1] \/
                        windows[j][2] <= windows[i][1])
        /\ \A t \in Instants :
              (\E i \in DOMAIN windows : InWindow(t, i)) <=>
                  (since <= t /\ t < until)

\* a completed plan of several windows whose earliest window was clipped
C1_Witness ==
    /\ Planned /\ since < until
    /\ Len(windows) >= 2
    /\ windows[Len(windows)][2] - windows[Len(windows)][1]
          < days_per_chunk * TicksPerDay

\* C2: the plan is newest-first: the first window ends at until, each window
\* starts where the next one ends, every window but the last spans exactly
\* days_per_chunk days, the last one starts at since and is no longer than
\* that; for since = day 0, until = day 3 and one-day chunks the plan is
\* exactly [2,3), [1,2), [0,1)
C2_NewestFirst ==
    (Planned /\ since < until) =>
        /\ windows # <<>>
        /\ windows[1][2] = until
        /\ windows[Len(windows)][1] = since
        /\ \A i \in 1..(Len(windows) - 1) :
              /\ windows[i][1] = windows[i + 1][2]
              /\ windows[i][2] - windows[i][1] = days_per_chunk * TicksPerDay
        /\ windows[Len(windows)][2] - windows[Len(windows)][1]
              <= days_per_chunk * TicksPerDay
        /\ (since = 0 /\ until = 3 * TicksPerDay /\ days_per_chunk = 1) =>
              windows = << <<2 * TicksPerDay, 3 * TicksPerDay>>,
                           <<TicksPerDay, 2 * TicksPerDay>>,
                           <<0, TicksPerDay>> >>

\* the three-day example, planned
C2_Witness ==
    /\ Planned
    /\ since = 0 /\ until = 3 * TicksPerDay /\ days_per_chunk = 1
    /\ Len(windows) = 3

\* ------------------------------------------------------ the source HTTP API
\* an event of a page: its id and whether its tags hold environment=prod;
\* the server has one event that is not tagged prod
Events == [id : Ids, prod : {TRUE}] \cup {[id |-> 1, prod |-> FALSE]}

Bodies(maxLen) == UNION {[1..n -> Events] : n \in 0..maxLen}

\* the rel="next" entry of the Link header as parse_header_links returns it;
\* NoLink stands for a header without such an entry
NoLink == [rel |-> NONE, results |-> NONE, cursor |-> NONE]

NextLinks == [rel : {"next"}, results : {"true", "false"},
              cursor : Cursors \cup {NONE}]

Links == {NoLink} \cup NextLinks

\* links after which a client that honours the results flag asks no more
FinalLinks == {l \in Links : l.rel = NONE \/ l.results = "false"}

FailedResponses == [status : {429, 500}, body : {<<>>}, link : {NoLink}]

\* what the server may answer to one request; the chain of pages it serves
\* to a call is finite: its last page carries no continuing next link
Responses(lastPage, maxLen) ==
    FailedResponses \cup
    [status : {200}, body : Bodies(maxLen),
     link : IF lastPage THEN FinalLinks ELSE Links]

\* in the runs of the scheduler the server answers a window with a failure
\* or with a single last page that is empty or holds event 1
PoolResponses ==
    FailedResponses \cup
    [status : {200}, body : {<<>>, <<[id |-> 1, prod |-> TRUE]>>},
     link : FinalLinks]

\* ------------------------------------------------------------ fetch_window
\* max_errors = max_errors or DEFAULT_MAX_ERRORS
EffMaxErrors(arg) == IF arg # 0 THEN arg ELSE DEFAULT_MAX_ERRORS

\* if cursor: url = base_url + f"&cursor={cursor}"; a URL is modelled by the
\* cursor it carries, NONE for the bare base_url
RequestUrl(cursor, url) == IF cursor # NONE THEN cursor ELSE url

\* the abort test taken one failure early
TooMany_AtLeast(errors, maxerr) == errors >= maxerr

\* if errors > max_errors
TooMany(errors, maxerr) == errors > maxerr

\* a page of which every event is kept, whatever its tags
ProdIds_All(body) == [i \in DOMAIN body |-> body[i].id]

\* ids of the events of the page whose tags hold environment=prod, in order
ProdIds(body) ==
    LET kept == SelectSeq(body, LAMBDA e : e.prod)
    IN  [i \in 1..Len(kept) |-> kept[i].id]

\* a filter that also drops the repeats of an id within the batch
filter_new_Unique(ids, coll) ==
    SelectSeq([k \in DOMAIN ids |->
                  IF \E j \in 1..(k - 1) : ids[j] = ids[k] THEN 0 ELSE ids[k]],
              LAMBDA i : i # 0 /\ i \notin coll)

\* the events whose id the collection does not hold, in batch order
filter_new(ids, coll) == SelectSeq(ids, LAMBDA i : i \notin coll)

\* the cached-limit test taken one page late
CachedStop_Late(cc, limit) == limit # 0 /\ cc > limit

\* if cached_limit and consecutive_cached >= cached_limit
CachedStop(cc, limit) == limit # 0 /\ cc >= limit

\* the end of pagination decided by the cursor instead of the results flag
EndOfPages_ByCursor(link) == link.rel # "next" \/ link.cursor = NONE

\* if not next_link or next_link.get("results") == "false"
EndOfPages(link) == link.rel # "next" \/ link.results = "false"

\* collection.insert_many(docs) on a collection with a unique index on id:
\* documents are inserted in order up to the first duplicate, which raises
RECURSIVE insert_many(_, _)
insert_many(docs, coll) ==
    IF docs = <<>> THEN [coll |-> coll, ok |-> TRUE]
    ELSE IF Head(docs) \in coll THEN [coll |-> coll, ok |-> FALSE]
    ELSE insert_many(Tail(docs), coll \cup {Head(docs)})

\* a submitted call that no worker has started
FW_Queued ==
    [pc |-> "queued", maxerr |-> 0, limit |-> 0,
     cursor |-> NONE, url |-> NONE, errors |-> 0, consecutive_cached |-> 0,
     new_records |-> 0, total_records |-> 0, new_docs |-> <<>>,
     link |-> NoLink,
     pages |-> 0, fails |-> 0, zero_run |-> 0, exit |-> NONE,
     window |-> <<0, 0>>, thread |-> 0, runs |-> 0, seen |-> {}]

\* the locals of fetch_window when it reaches its loop; the history fields
\* pages (successful pages so far), fails (failed responses since the last
\* successful page), zero_run (successful pages in a row without a new
\* record), link (next link of the last successful page) and exit (why the
\* loop was left), window (the window the call was submitted with), thread
\* (the pool thread that runs it), runs (how often fetch_window was entered
\* for it) and seen (the ids of the prod events received) are not program
\* state
FW_Entry(maxerr, limit) ==
    [FW_Queued EXCEPT !.pc = "send", !.maxerr = EffMaxErrors(maxerr),
                      !.limit = limit]

\* req = requests.get(url, headers=headers)
FW_Send(w) ==
    /\ w \in DOMAIN fw
    /\ fw[w].pc = "send"
    /\ fw' = [fw EXCEPT ![w].url = RequestUrl(fw[w].cursor, fw[w].url),
                        ![w].pc = "recv"]
    /\ UNCHANGED <<auxVars, argVars, pf_pc, planVars, poolVars, db>>

\* a failed response that restarts the pagination from the first page
FW_OnFailure_Restart(r, resp) ==
    LET errs == r.errors + 1
    IN  [r EXCEPT !.errors = errs,
                  !.fails = @ + 1,
                  !.cursor = NONE,
                  !.pc = IF errs > r.maxerr THEN "returned" ELSE "send",
                  !.exit = IF errs > r.maxerr THEN "abort" ELSE NONE]

\* a failed response where HTTP 429 is retried outside the error budget
FW_OnFailure_Uncapped429(r, resp) ==
    LET errs == r.errors + 1
    IN  IF resp.status = 429 THEN [r EXCEPT !.pc = "send"]
        ELSE [r EXCEPT !.errors = errs,
                       !.fails = @ + 1,
                       !.pc = IF errs > r.maxerr THEN "returned" ELSE "send",
                       !.exit = IF errs > r.maxerr THEN "abort" ELSE NONE]

\* a failed response: count it, then abort the window or retry
FW_OnFailure(r, resp) ==
    LET errs == r.errors + 1
    IN  [r EXCEPT !.errors = errs,
                  !.fails = @ + 1,
                  !.pc = IF TooMany(errs, r.maxerr) THEN "returned" ELSE "send",
                  !.exit = IF TooMany(errs, r.maxerr) THEN "abort" ELSE NONE]

\* a successful page: reset the error counter, keep the prod events, ask the
\* collection which are new and count
FW_OnPage(r, resp, coll) ==
    LET events == ProdIds(resp.body)
        docs == filter_new(events, coll)
    IN  [r EXCEPT !.errors = 0,
                  !.fails = 0,
                  !.pages = @ + 1,
                  !.link = resp.link,
                  !.new_docs = docs,
                  !.new_records = @ + Len(docs),
                  !.total_records = @ + Len(events),
                  !.zero_run = IF docs = <<>> THEN @ + 1 ELSE 0,
                  !.seen = @ \cup {events[i] : i \in DOMAIN events},
                  !.pc = "store"]

\* a call that has ended gives its thread back to the pool
FW_Leave(r) ==
    IF r.pc \in {"returned", "raised"} THEN [r EXCEPT !.thread = 0] ELSE r

\* the response arrives and is handled up to the dedup query
FW_Recv(w, resps) ==
    /\ w \in DOMAIN fw
    /\ fw[w].pc = "recv"
    /\ \E resp \in resps :
          fw' = [fw EXCEPT ![w] = FW_Leave(IF resp.status = 200
                                             THEN FW_OnPage(fw[w], resp, db)
                                             ELSE FW_OnFailure(fw[w], resp))]
    /\ UNCHANGED <<auxVars, argVars, pf_pc, planVars, poolVars, db>>

\* after the insert: the cached-limit stop, then the Link header
FW_AfterInsert(r) ==
    LET cc == IF r.new_docs # <<>> THEN 0 ELSE r.consecutive_cached + 1
        stop == r.new_docs = <<>> /\ CachedStop(cc, r.limit)
        last == EndOfPages(r.link)
    IN  [r EXCEPT !.consecutive_cached = cc,
                  !.new_docs = <<>>,
                  !.cursor = IF stop \/ last THEN @ ELSE r.link.cursor,
                  !.pc = IF stop \/ last THEN "returned" ELSE "send",
                  !.exit = IF stop THEN "cached"
                           ELSE IF last THEN "end" ELSE NONE]

\* insert the new documents, then decide whether to go on
FW_Store(w) ==
    /\ w \in DOMAIN fw
    /\ fw[w].pc = "store"
    /\ LET res == insert_many(fw[w].new_docs, db)
       IN  /\ db' = res.coll
           /\ fw' = [fw EXCEPT ![w] = FW_Leave(
                        IF res.ok THEN FW_AfterInsert(fw[w])
                        ELSE [fw[w] EXCEPT !.pc = "raised", !.exit = "raise",
                                           !.new_docs = <<>>])]
    /\ UNCHANGED <<auxVars, argVars, pf_pc, planVars, poolVars>>

\* a direct call of fetch_window on one window
FetchInit ==
    /\ since = 0 /\ until = TicksPerDay /\ days_per_chunk = 1
    /\ max_workers = 1
    /\ cached_limit \in 0..MaxLimit
    /\ max_errors \in 0..MaxErrArg
    /\ pf_pc = "direct"
    /\ cur = since
    /\ windows = <<<<since, until>>>>
    /\ sum_new = 0 /\ sum_total = 0
    /\ submitted = 0
    /\ collected = {}
    /\ fw = <<[FW_Entry(max_errors, cached_limit)
                 EXCEPT !.window = <<since, until>>, !.runs = 1]>>
    /\ db \in StoredBefore /\ db0 = db
    /\ fn = FN_Idle /\ nd = ND_Idle /\ mg = MG_Idle
    /\ mc = MC_Idle /\ cli = CLI_Idle /\ rq = RQ_Idle

\* the answers to the next request of a direct call
FetchResponses == Responses(fw[1].pages + 1 >= MaxPages, MaxPageLen)

FetchNext == FW_Send(1) \/ FW_Recv(1, FetchResponses) \/ FW_Store(1)

SpecFetch == FetchInit /\ [][FetchNext]_vars

\* direct calls on an empty collection, cached_limit unset or 1
FetchLiveInit == FetchInit /\ db = {} /\ cached_limit <= 1

\* the thread that runs the call keeps running until the call ends
SpecFetchLive == FetchLiveInit /\ [][FetchNext]_vars /\ WF_vars(FetchNext)

\* ------------------------------------------- the scheduler of parallel_fetch
\* exe.submit(fetch_window, ...) for the next window of the plan
PF_Submit ==
    /\ pf_pc = "submit"
    /\ submitted < Len(windows)
    /\ submitted' = submitted + 1
    /\ fw' = Append(fw, [FW_Queued EXCEPT !.window = windows[submitted + 1]])
    /\ UNCHANGED <<auxVars, argVars, pf_pc, planVars, sum_new, sum_total, collected, db>>

\* the list of futures is complete: enter the as_completed loop
PF_Submitted ==
    /\ pf_pc = "submit"
    /\ submitted = Len(windows)
    /\ pf_pc' = "collect"
    /\ UNCHANGED <<auxVars, argVars, planVars, poolVars, fw, db>>

\* number of calls a worker thread is executing
Busy == Cardinality({v \in DOMAIN fw : fw[v].pc \in {"send", "recv", "store"}})

\* a pool that starts a thread for every queued call
WorkerFree_Unbounded(busy, workers) == TRUE

\* a worker may take a call when fewer than max_workers threads are busy
WorkerFree(busy, workers) == busy < workers

\* the threads of the pool that are executing a call
BusyThreads ==
    {fw[v].thread : v \in {x \in DOMAIN fw : fw[x].pc \in {"send", "recv", "store"}}}

\* the thread that takes the next call: threads are interchangeable, the
\* idle one of lowest number stands for any of them
NextThread == CHOOSE t \in 1..Len(fw) :
                 /\ t \notin BusyThreads
                 /\ \A u \in 1..(t - 1) : u \in BusyThreads

\* a worker thread takes the oldest queued call and enters fetch_window
W_Start(w) ==
    /\ w \in DOMAIN fw
    /\ fw[w].pc = "queued"
    /\ \A v \in 1..(w - 1) : fw[v].pc # "queued"
    /\ WorkerFree(Busy, PoolSize(max_workers))
    /\ fw' = [fw EXCEPT ![w] = [FW_Entry(max_errors, cached_limit)
                                EXCEPT !.window = fw[w].window,
                                       !.thread = NextThread,
                                       !.runs = fw[w].runs + 1]]
    /\ UNCHANGED <<auxVars, argVars, pf_pc, planVars, poolVars, db>>

\* what fut.result() adds to a sum: the count of a call that returned,
\* nothing for a call whose exception the except clause swallows
Contribution(r, count) == IF r.pc = "returned" THEN count ELSE 0

\* the round without the try/except: the exception of a failed call leaves
\* parallel_fetch
PF_Collect_NoCatch(w) ==
    /\ pf_pc = "collect"
    /\ w \in DOMAIN fw
    /\ w \notin collected
    /\ fw[w].pc \in {"returned", "raised"}
    /\ sum_new' = sum_new + Contribution(fw[w], fw[w].new_records)
    /\ sum_total' = sum_total + Contribution(fw[w], fw[w].total_records)
    /\ collected' = collected \cup {w}
    /\ pf_pc' = IF fw[w].pc = "raised" THEN "raised" ELSE pf_pc
    /\ UNCHANGED <<auxVars, argVars, planVars, submitted, fw, db>>

\* a collecting round that keeps the last pair instead of adding it
PF_Collect_Overwrite(w) ==
    /\ pf_pc = "collect"
    /\ w \in DOMAIN fw
    /\ w \notin collected
    /\ fw[w].pc \in {"returned", "raised"}
    /\ sum_new' = Contribution(fw[w], fw[w].new_records)
    /\ sum_total' = Contribution(fw[w], fw[w].total_records)
    /\ collected' = collected \cup {w}
    /\ UNCHANGED <<auxVars, argVars, pf_pc, planVars, submitted, fw, db>>

\* one round of the as_completed loop on a finished future
PF_Collect(w) ==
    /\ pf_pc = "collect"
    /\ w \in DOMAIN fw
    /\ w \notin collected
    /\ fw[w].pc \in {"returned", "raised"}
    /\ sum_new' = sum_new + Contribution(fw[w], fw[w].new_records)
    /\ sum_total' = sum_total + Contribution(fw[w], fw[w].total_records)
    /\ collected' = collected \cup {w}
    /\ UNCHANGED <<auxVars, argVars, pf_pc, planVars, submitted, fw, db>>

\* a summary printed as soon as the first future has been consumed
PF_Finish_Early ==
    /\ pf_pc = "collect"
    /\ collected # {} \/ fw = <<>>
    /\ pf_pc' = "done"
    /\ UNCHANGED <<auxVars, argVars, planVars, poolVars, fw, db>>

\* every future has been consumed: leave the pool, print the summary
PF_Finish ==
    /\ pf_pc = "collect"
    /\ collected = DOMAIN fw
    /\ pf_pc' = "done"
    /\ UNCHANGED <<auxVars, argVars, planVars, poolVars, fw, db>>

\* the parameters parallel_fetch declares
PF_Parameters ==
    {"event_name", "token", "since", "until", "max_workers", "days_per_chunk",
     "cached_limit", "max_errors"}

\* the keywords the get command calls parallel_fetch with
GetKeywords ==
    {"event_name", "token", "since", "until", "days_per_chunk", "max_workers",
     "cached_limit", "max_errors", "id_lookup"}

\* what parallel_fetch hands back after the summary: it has no return
\* statement, so the caller receives None
PF_Return == [kind |-> NONE]

Init ==
    /\ \E u \in 0..(PoolDays * TicksPerDay), jobs \in 0..MaxJobs :
          PF_Entry(0, u, 1, jobs, 0, 1)
    /\ db \in StoredBefore /\ db0 = db
    /\ fn = FN_Idle /\ nd = ND_Idle /\ mg = MG_Idle
    /\ mc = MC_Idle /\ cli = CLI_Idle /\ rq = RQ_Idle

Next ==
    \/ PF_PlanStep
    \/ PF_PlanExit
    \/ PF_Submit
    \/ PF_Submitted
    \/ \E w \in 1..Len(windows) : W_Start(w)
    \/ \E w \in 1..Len(windows) : FW_Send(w)
    \/ \E w \in 1..Len(windows) : FW_Recv(w, PoolResponses)
    \/ \E w \in 1..Len(windows) : FW_Store(w)
    \/ \E w \in 1..Len(windows) : PF_Collect(w)
    \/ PF_Finish

Spec == Init /\ [][Next]_vars

\* ------------------------------------------------- filter_new on its own
\* ids of the events of a batch
FilterIds == 1..(MaxIds + 1)

\* the batches: up to MaxBatch events, an id possibly more than once
Batches == UNION {[1..n -> FilterIds] : n \in 0..MaxBatch}

\* collection.distinct("id", {"id": {"$in": ids}})
distinct(coll, ids) == {i \in coll : \E k \in DOMAIN ids : ids[k] = i}

\* a call of filter_new is about to be made
FilterInit ==
    /\ fn \in [pc : {"call"}, events : Batches, coll : SUBSET FilterIds,
               out : {<<>>}, queries : {0}]
    /\ PF_Entry(0, 0, 1, 0, 0, 0)
    /\ db = {} /\ db0 = db
    /\ nd = ND_Idle /\ mg = MG_Idle
    /\ mc = MC_Idle /\ cli = CLI_Idle /\ rq = RQ_Idle

\* filter_new(events, collection): an empty batch returns at once, any other
\* asks the collection once and keeps, in order, the events it does not
\* report
FN_Call ==
    /\ fn.pc = "call"
    /\ fn' = IF fn.events = <<>>
             THEN [fn EXCEPT !.pc = "returned", !.out = <<>>]
             ELSE [fn EXCEPT !.pc = "returned",
                             !.queries = @ + 1,
                             !.out = filter_new(fn.events,
                                                distinct(fn.coll, fn.events))]
    /\ UNCHANGED <<fetchVars, restVars, nd, mg>>

SpecFilter == FilterInit /\ [][FN_Call]_vars

\* ------------------------------------------------------ _normalize_event
\* A key is the sequence of its characters; the words tags, _id and
\* environment are single characters of the model, which no other key
\* spells. A value is a leaf [t, v] holding a scalar [s, v] (s: int, str or
\* oid, the ObjectId of Mongo), a dict or a list [t, items]; a dict, like a
\* document, is the sequence of its [key, value] in insertion order. The
\* value of tags is the list of the [key, value] of its tags, a missing key
\* being the empty key.
TAGS == <<"tags">>

OID == <<"_id">>

ENVIRONMENT == <<"environment">>

Leaf(s, v) == [t |-> "leaf", v |-> [s |-> s, v |-> v]]

Dict(items) == [t |-> "dict", items |-> items]

List(items) == [t |-> "list", items |-> items]

Item(k, v) == [key |-> k, value |-> v]

\* the fields a document may have and the values each may take
FieldValues ==
    [k \in {<<"a">>, <<"a", " ", "B">>, <<"a", "_", "B">>, <<"B", ".", "a">>,
            OID, ENVIRONMENT} |->
        CASE k = <<"a">> ->
               {Leaf("int", 1),
                Dict(<<Item(<<"B", ".", "a">>, Leaf("str", 1)),
                       Item(<<"a">>, List(<<Leaf("int", 1), Leaf("int", 2)>>))>>),
                List(<<Leaf("str", 1), Dict(<<Item(<<"a">>, Leaf("int", 2))>>)>>)}
          [] k = <<"a", " ", "B">> ->
               {Leaf("str", 1), Dict(<<Item(TAGS, Leaf("int", 1))>>), Dict(<<>>)}
          [] k = <<"a", "_", "B">> ->
               {Leaf("int", 2), List(<<Leaf("str", 2)>>)}
          [] k = <<"B", ".", "a">> ->
               {Leaf("str", 2), Dict(<<Item(<<"/", "-">>, Leaf("int", 1))>>)}
          [] k = OID -> {Leaf("oid", 1), Leaf("str", 1)}
          [] OTHER -> {Leaf("str", 1), Dict(<<Item(<<"a">>, Leaf("int", 1))>>)}]

Fields ==
    UNION {{Item(k, v) : v \in FieldValues[k]} : k \in DOMAIN FieldValues}

\* the tags a document may carry
TagItems ==
    {Item(k, Leaf("str", v)) :
        k \in {<<>>, <<"a">>, <<"B", ".", "a">>, <<"a", " ", "B">>, ENVIRONMENT},
        v \in {1, 2}}

\* documents: up to MaxFields fields of different keys, then up to MaxTags
\* tags
Documents ==
    LET bodies == {d \in UNION {[1..n -> Fields] : n \in 0..MaxFields} :
                      \A i, j \in DOMAIN d : d[i].key = d[j].key => i = j}
        tagged == UNION {[1..n -> TagItems] : n \in 1..MaxTags}
    IN  bodies \cup
        {Append(d, Item(TAGS, [t |-> "tags", items |-> ts])) :
            d \in bodies, ts \in tagged}

\* a sanitizer that leaves the dots of a key alone
_sanitize_key_Spaces(key) ==
    [i \in DOMAIN key |-> IF key[i] = " " THEN "_" ELSE key[i]]

\* key.replace(" ", "_").replace(".", "_")
_sanitize_key(key) ==
    [i \in DOMAIN key |-> IF key[i] \in {" ", "."} THEN "_" ELSE key[i]]

\* dest[key] = value
DictSet(dest, k, v) ==
    IF \E i \in DOMAIN dest : dest[i].key = k
    THEN [i \in DOMAIN dest |-> IF dest[i].key = k THEN Item(k, v) ELSE dest[i]]
    ELSE Append(dest, Item(k, v))

\* str(index) of the position of a list item
IndexText(index) == <<"0", "1", "2", "3">>[index + 1]

RECURSIVE _flatten(_, _, _)
RECURSIVE FlattenDict(_, _, _, _)
RECURSIVE FlattenList(_, _, _, _)

\* the loop of _flatten over the items of a dict, from the i-th on
FlattenDict(prefix, items, i, dest) ==
    IF i > Len(items) THEN dest
    ELSE LET new_key == _sanitize_key(IF prefix # <<>>
                                      THEN prefix \o <<"_">> \o items[i].key
                                      ELSE items[i].key)
         IN  FlattenDict(prefix, items, i + 1,
                         _flatten(new_key, items[i].value, dest))

\* the loop of _flatten over the items of a list, from the i-th on
FlattenList(prefix, items, i, dest) ==
    IF i > Len(items) THEN dest
    ELSE LET new_key == _sanitize_key(prefix \o <<"_">> \o <<IndexText(i - 1)>>)
         IN  FlattenList(prefix, items, i + 1,
                         _flatten(new_key, items[i], dest))

_flatten(prefix, value, dest) ==
    IF value.t = "dict" THEN FlattenDict(prefix, value.items, 1, dest)
    ELSE IF value.t = "list" THEN FlattenList(prefix, value.items, 1, dest)
    ELSE DictSet(dest, _sanitize_key(prefix), value)

\* str(value)
Str(value) == [value EXCEPT !.v.s = "str"]

\* the first loop of _normalize_event, from the i-th field on
RECURSIVE NormalizeFields(_, _, _)
NormalizeFields(event, i, normalized) ==
    IF i > Len(event) THEN normalized
    ELSE NormalizeFields(event, i + 1,
            IF event[i].key = TAGS THEN normalized
            ELSE IF event[i].key = OID
                 THEN DictSet(normalized, OID, Str(event[i].value))
                 ELSE _flatten(event[i].key, event[i].value, normalized))

\* a tag is promoted under its key as the document has it
TagKey_Raw(key) == key

\* a tag is promoted under its sanitized key
TagKey(key) == _sanitize_key(key)

\* the loop over the tags, from the i-th on
RECURSIVE NormalizeTags(_, _, _)
NormalizeTags(tags, i, normalized) ==
    IF i > Len(tags) THEN normalized
    ELSE LET tag_key == TagKey(tags[i].key)
         IN  NormalizeTags(tags, i + 1,
                IF tag_key # <<>>
                THEN DictSet(normalized, tag_key, tags[i].value)
                ELSE normalized)

\* event.get("tags", []) or []
TagsOf(event) ==
    IF \E i \in DOMAIN event : event[i].key = TAGS
    THEN event[CHOOSE i \in DOMAIN event : event[i].key = TAGS].value.items
    ELSE <<>>

\* a normalization that forgets to remove environment
_normalize_event_KeepEnv(event) ==
    NormalizeTags(TagsOf(event), 1, NormalizeFields(event, 1, <<>>))

\* flatten the fields, promote the tags, drop environment
_normalize_event(event) ==
    LET flat == NormalizeFields(event, 1, <<>>)
        tagged == NormalizeTags(TagsOf(event), 1, flat)
    IN  SelectSeq(tagged, LAMBDA e : e.key # ENVIRONMENT)

\* a document is about to be normalized
NormInit ==
    /\ nd \in [pc : {"raw"}, doc : Documents, out : {<<>>}, again : {<<>>}]
    /\ PF_Entry(0, 0, 1, 0, 0, 0)
    /\ db = {} /\ db0 = db
    /\ fn = FN_Idle /\ mg = MG_Idle
    /\ mc = MC_Idle /\ cli = CLI_Idle /\ rq = RQ_Idle

\* record = _normalize_event(document)
ND_Normalize ==
    /\ nd.pc = "raw"
    /\ nd' = [nd EXCEPT !.pc = "once", !.out = _normalize_event(nd.doc)]
    /\ UNCHANGED <<fetchVars, restVars, fn, mg>>

\* the record is normalized once more
ND_Again ==
    /\ nd.pc = "once"
    /\ nd' = [nd EXCEPT !.pc = "twice", !.again = _normalize_event(nd.out)]
    /\ UNCHANGED <<fetchVars, restVars, fn, mg>>

NormNext == ND_Normalize \/ ND_Again

SpecNorm == NormInit /\ [][NormNext]_vars

\* ------------------------------------------- ManifestCache, _write_manifest
\* A file is [state, rows]: absent, whole, or torn when a write to it was cut
\* short. An entry is [path, n], n telling the add calls apart.
ManifestPaths == {"p1", "p2"}

Caches == {1, 2}

Absent == [state |-> "absent", rows |-> <<>>]

Whole(rows) == [state |-> "whole", rows |-> rows]

Torn(rows) == [state |-> "torn", rows |-> SubSeq(rows, 1, Len(rows) - 1)]

\* a ManifestCache that has not been constructed, or whose process died
MC_Dead == [alive |-> FALSE, threshold |-> 0, cache |-> <<>>, seen |-> {}]

WM_Idle == [pc |-> "idle", who |-> 0, merged |-> <<>>]

\* _read_manifest: the rows of the manifest, none when there is no file
_read_manifest(disk) ==
    IF disk.manifest.state = "absent" THEN <<>> ELSE disk.manifest.rows

\* _existing_manifest_paths
_existing_manifest_paths(disk) ==
    {_read_manifest(disk)[i].path : i \in DOMAIN _read_manifest(disk)}

\* a dataset root without a manifest and no cache object
ManifestInit ==
    /\ mc = [disk |-> [manifest |-> Absent, tmp |-> Absent],
             obj |-> [c \in Caches |-> MC_Dead],
             w |-> WM_Idle, adds |-> 0, crashes |-> 0]
    /\ PF_Entry(0, 0, 1, 0, 0, 0)
    /\ db = {} /\ db0 = db
    /\ fn = FN_Idle /\ nd = ND_Idle /\ mg = MG_Idle /\ cli = CLI_Idle
    /\ rq = RQ_Idle

\* ManifestCache(dataset_root, flush_threshold)
MC_Open(c) ==
    /\ ~mc.obj[c].alive
    /\ mc.w.pc = "idle"
    /\ \E arg \in 0..MaxThreshold :
          mc' = [mc EXCEPT !.obj[c] =
                    [alive |-> TRUE, threshold |-> Max(1, arg), cache |-> <<>>,
                     seen |-> _existing_manifest_paths(mc.disk)]]
    /\ UNCHANGED <<fetchVars, fn, nd, mg, cli, rq>>

\* flush, up to the point where _write_manifest has read the manifest and
\* concatenated the cached entries to it
MC_BeginFlush(m, c) ==
    [m EXCEPT !.w = [pc |-> "write", who |-> c,
                     merged |-> _read_manifest(m.disk) \o m.obj[c].cache]]

\* an add that keeps the entry whatever paths have been seen
MC_Add_Unseen(c) ==
    /\ mc.obj[c].alive
    /\ mc.w.pc = "idle"
    /\ mc.adds < MaxAdds
    /\ \E path \in ManifestPaths :
          LET kept == [mc EXCEPT !.adds = @ + 1,
                                 !.obj[c].cache =
                                    Append(@, [path |-> path, n |-> mc.adds + 1])]
          IN  mc' = IF Len(kept.obj[c].cache) >= kept.obj[c].threshold
                    THEN MC_BeginFlush(kept, c)
                    ELSE kept
    /\ UNCHANGED <<fetchVars, fn, nd, mg, cli, rq>>

\* ManifestCache.add(entry)
MC_Add(c) ==
    /\ mc.obj[c].alive
    /\ mc.w.pc = "idle"
    /\ mc.adds < MaxAdds
    /\ \E path \in ManifestPaths :
          LET counted == [mc EXCEPT !.adds = @ + 1]
              kept == [counted EXCEPT !.obj[c].cache =
                          Append(@, [path |-> path, n |-> mc.adds + 1])]
          IN  mc' = IF path \in mc.obj[c].seen THEN counted
                    ELSE IF Len(kept.obj[c].cache) >= kept.obj[c].threshold
                         THEN MC_BeginFlush(kept, c)
                         ELSE kept
    /\ UNCHANGED <<fetchVars, fn, nd, mg, cli, rq>>

\* ManifestCache.flush() with entries in the cache (with none it returns)
MC_Flush(c) ==
    /\ mc.obj[c].alive
    /\ mc.w.pc = "idle"
    /\ mc.obj[c].cache # <<>>
    /\ mc' = MC_BeginFlush(mc, c)
    /\ UNCHANGED <<fetchVars, fn, nd, mg, cli, rq>>

\* a writer that writes the merged rows over the manifest itself
WriteTarget_InPlace == "manifest"

\* merged.to_parquet(tmp_path): the file the merged rows are written to
WriteTarget == "tmp"

\* the write has begun: the target holds a part of the merged rows
WM_WriteSome ==
    /\ mc.w.pc = "write"
    /\ mc' = [mc EXCEPT !.disk[WriteTarget] = Torn(mc.w.merged),
                        !.w.pc = "finish"]
    /\ UNCHANGED <<fetchVars, fn, nd, mg, cli, rq>>

\* the write is complete
WM_WriteAll ==
    /\ mc.w.pc = "finish"
    /\ mc' = [mc EXCEPT !.disk[WriteTarget] = Whole(mc.w.merged),
                        !.w.pc = "replace"]
    /\ UNCHANGED <<fetchVars, fn, nd, mg, cli, rq>>

\* tmp_path.replace(manifest_file), then the end of flush: the paths of the
\* written entries are seen and the cache is cleared
WM_Replace ==
    /\ mc.w.pc = "replace"
    /\ LET c == mc.w.who
           cached == mc.obj[c].cache
       IN  mc' = [mc EXCEPT
                     !.disk = IF mc.disk.tmp.state = "absent" THEN @
                              ELSE [manifest |-> mc.disk.tmp, tmp |-> Absent],
                     !.obj[c].seen = @ \cup {cached[i].path : i \in DOMAIN cached},
                     !.obj[c].cache = <<>>,
                     !.w = WM_Idle]
    /\ UNCHANGED <<fetchVars, fn, nd, mg, cli, rq>>

\* the process dies: its objects are gone, the files stay as they are
MC_Crash ==
    /\ mc.crashes < MaxCrashes
    /\ \E c \in Caches : mc.obj[c].alive
    /\ mc' = [mc EXCEPT !.obj = [c \in Caches |-> MC_Dead],
                        !.w = WM_Idle,
                        !.crashes = @ + 1]
    /\ UNCHANGED <<fetchVars, fn, nd, mg, cli, rq>>

ManifestNext ==
    \/ \E c \in Caches : MC_Open(c)
    \/ \E c \in Caches : MC_Add(c)
    \/ \E c \in Caches : MC_Flush(c)
    \/ WM_WriteSome
    \/ WM_WriteAll
    \/ WM_Replace
    \/ MC_Crash

SpecManifest == ManifestInit /\ [][ManifestNext]_vars

\* --------------------------------------- _write_manifest called directly
\* Calls of _write_manifest(dataset_root, entries) one after the other, with
\* every list of up to MaxEntries entries. mc.w keeps, beside the place of
\* the call, the list it was given and the manifest file it found.
EntryLists ==
    UNION {[1..n -> [path : ManifestPaths, n : {0}]] : n \in 0..MaxEntries}

\* a merge that puts the new entries first
WM_Merged_NewFirst(existing, entries) == entries \o existing

\* pd.concat([existing, df_new], ignore_index=True)
WM_Merged(existing, entries) == existing \o entries

WriteInit ==
    /\ mc = [disk |-> [manifest |-> Absent, tmp |-> Absent],
             obj |-> [c \in Caches |-> MC_Dead],
             w |-> [pc |-> "idle", who |-> 0, merged |-> <<>>,
                    entries |-> <<>>, before |-> Absent],
             adds |-> 0, crashes |-> 0]
    /\ PF_Entry(0, 0, 1, 0, 0, 0)
    /\ db = {} /\ db0 = db
    /\ fn = FN_Idle /\ nd = ND_Idle /\ mg = MG_Idle /\ cli = CLI_Idle
    /\ rq = RQ_Idle

\* the call, up to the concatenation; with no entries it returns at once
WR_Call ==
    /\ mc.w.pc = "idle"
    /\ mc.adds < MaxAdds
    /\ \E entries \in EntryLists :
          mc' = [mc EXCEPT
                    !.adds = @ + 1,
                    !.w = [pc |-> IF entries = <<>> THEN "idle" ELSE "write",
                           who |-> 0,
                           merged |-> IF entries = <<>> THEN <<>>
                                      ELSE WM_Merged(_read_manifest(mc.disk),
                                                     entries),
                           entries |-> entries,
                           before |-> mc.disk.manifest]]
    /\ UNCHANGED <<fetchVars, fn, nd, mg, cli, rq>>

\* tmp_path.replace(manifest_file), and the call returns
WR_Replace ==
    /\ mc.w.pc = "replace"
    /\ mc' = [mc EXCEPT !.disk = [manifest |-> mc.disk.tmp, tmp |-> Absent],
                        !.w.pc = "idle"]
    /\ UNCHANGED <<fetchVars, fn, nd, mg, cli, rq>>

WriteNext == WR_Call \/ WM_WriteSome \/ WM_WriteAll \/ WR_Replace

SpecWrite == WriteInit /\ [][WriteNext]_vars

\* ------------------------------------ migrate_mongo_to_parquet.py: main
\* A document is modelled by what the loop reads of its normalized record:
\* the id (0: missing or empty) and the values of dateCreated, timestamp,
\* received and datetime, where 0 is a missing or empty value, -1 a value
\* that is no timestamp (text that does not parse, a number) and d >= 1 a
\* timestamp on day d.
MigIds == 1..(MaxIds + 1)

MigDays == {1, 2}

DateValues ==
    {<<0, 0, 0, 0>>, <<-1, 0, 0, 0>>, <<-1, 1, 0, 0>>, <<0, 0, 0, 2>>,
     <<1, 2, 0, 0>>} \cup {<<d, 0, 0, 0>> : d \in MigDays}

MigDocs == [id : {0} \cup MigIds, dates : DateValues]

\* _coerce_datetime: a timestamp or None
_coerce_datetime(value) == IF value >= 1 THEN value ELSE 0

\* _event_date: the day of the first of the four keys that holds a
\* timestamp, None (0) when none does
_event_date(dates) ==
    LET hits == {k \in DOMAIN dates : _coerce_datetime(dates[k]) # 0}
    IN  IF hits = {} THEN 0
        ELSE _coerce_datetime(dates[CHOOSE k \in hits : \A j \in hits : k <= j])

\* _partition_target: the day itself, or the week the day falls in (the
\* days of the model are days of one week)
_partition_target(day, frequency) ==
    IF frequency = "week" THEN <<"week", 0>> ELSE <<"day", day>>

\* a defaultdict(list) is a sequence of [key, items] in insertion order
DictKeys(dict) == {dict[i].key : i \in DOMAIN dict}

DictExtend(dict, k, xs) ==
    IF k \in DictKeys(dict)
    THEN [i \in DOMAIN dict |->
             IF dict[i].key = k THEN [dict[i] EXCEPT !.items = @ \o xs]
             ELSE dict[i]]
    ELSE Append(dict, [key |-> k, items |-> xs])

DictGet(dict, k) ==
    IF k \in DictKeys(dict)
    THEN dict[CHOOSE i \in DOMAIN dict : dict[i].key = k].items
    ELSE <<>>

\* the loop of flush_buffers from the i-th buffer on: one temporary file
\* per target and a manifest row per buffered record
RECURSIVE FlushFrom(_, _)
FlushFrom(m, i) ==
    IF i > Len(m.buffers) THEN m
    ELSE LET b == m.buffers[i]
             made == [k \in DOMAIN b.items |->
                         [id |-> b.items[k].id, date |-> b.items[k].date,
                          path |-> b.key]]
         IN  IF b.items = <<>> THEN FlushFrom(m, i + 1)
             ELSE FlushFrom([m EXCEPT
                                !.partial = DictExtend(@, b.key, <<b.items>>),
                                !.rows = DictExtend(@, b.key, made)],
                            i + 1)

flush_buffers(m) ==
    IF m.pending = 0 THEN m
    ELSE [FlushFrom(m, 1) EXCEPT !.buffers = <<>>, !.pending = 0]

\* a concatenation that keeps the last frame only
Concat_Last(frames) == IF frames = <<>> THEN <<>> ELSE frames[Len(frames)]

\* pd.concat of the frames of a partition
RECURSIVE Concat(_)
Concat(frames) ==
    IF frames = <<>> THEN <<>> ELSE Head(frames) \o Concat(Tail(frames))

\* api._load_manifest_cache: the ids of the manifest
load_manifest_cache(manifest) == {manifest[i].id : i \in DOMAIN manifest}

\* api._update_manifest_cache: the ids of the new rows join the cache
update_manifest_cache(cache, new_rows) ==
    cache \cup {new_rows[i].id : i \in DOMAIN new_rows}

\* a merge that writes the new rows alone
Combined_Overwrite(files, t) == Concat(t.items)

\* pd.concat(frames): the rows of the partition file, when it exists,
\* followed by the rows of the temporary files of the target
Combined(files, t) == DictGet(files, t.key) \o Concat(t.items)

\* tmp_output.replace(final_path): the file of the target holds the rows
PutFile(files, key, rows) ==
    IF key \in DictKeys(files)
    THEN [k \in DOMAIN files |->
             IF files[k].key = key THEN [key |-> key, items |-> rows]
             ELSE files[k]]
    ELSE Append(files, [key |-> key, items |-> rows])

\* the loop of finalize_partitions from the i-th target on: the partition
\* file becomes its old rows followed by those of the temporary files
RECURSIVE FinalizeFrom(_, _, _)
FinalizeFrom(m, i, new_rows) ==
    IF i > Len(m.partial)
    THEN IF new_rows = <<>> THEN m
         ELSE [m EXCEPT !.manifest = @ \o new_rows,
                        !.cache = update_manifest_cache(@, new_rows)]
    ELSE LET t == m.partial[i]
         IN  IF t.items = <<>> THEN FinalizeFrom(m, i + 1, new_rows)
             ELSE FinalizeFrom(
                     [m EXCEPT !.files =
                          PutFile(@, t.key, Combined(m.files, t))],
                     i + 1, new_rows \o DictGet(m.rows, t.key))

finalize_partitions(m) ==
    IF m.partial = <<>> THEN m
    ELSE [FinalizeFrom(m, 1, <<>>) EXCEPT !.partial = <<>>, !.rows = <<>>]

\* a body of the loop that enters the id in the cache before the date is
\* resolved
MG_OnDocument_CacheFirst(m, doc) ==
    IF doc.id = 0 THEN m
    ELSE IF doc.id \in m.cache THEN m
    ELSE IF _event_date(doc.dates) = 0 THEN [m EXCEPT !.cache = @ \cup {doc.id}]
    ELSE LET day == _event_date(doc.dates)
             target == _partition_target(day, m.frequency)
             taken == [m EXCEPT
                          !.buffers = DictExtend(@, target,
                                                 <<[id |-> doc.id, date |-> day]>>),
                          !.cache = @ \cup {doc.id},
                          !.pending = @ + 1,
                          !.totals = @ + 1]
         IN  IF taken.pending >= m.batch_size THEN flush_buffers(taken)
             ELSE taken

\* the body of the loop over the cursor for one document
MG_OnDocument(m, doc) ==
    IF doc.id = 0 THEN m
    ELSE IF doc.id \in m.cache THEN m
    ELSE IF _event_date(doc.dates) = 0 THEN m
    ELSE LET day == _event_date(doc.dates)
             target == _partition_target(day, m.frequency)
             taken == [m EXCEPT
                          !.buffers = DictExtend(@, target,
                                                 <<[id |-> doc.id, date |-> day]>>),
                          !.cache = @ \cup {doc.id},
                          !.pending = @ + 1,
                          !.totals = @ + 1]
         IN  IF taken.pending >= m.batch_size THEN flush_buffers(taken)
             ELSE taken

\* the datasets a migration may find: none, or the one an earlier run left
\* after it had migrated event 1 of day 1
MigDatasets(frequency) ==
    LET t == _partition_target(1, frequency)
    IN  {[files |-> <<>>, manifest |-> <<>>],
         [files |-> <<[key |-> t, items |-> <<[id |-> 1, date |-> 1]>>]>>,
          manifest |-> <<[id |-> 1, date |-> 1, path |-> t]>>]}

\* main up to the loop over the cursor of one collection
MigInit ==
    /\ \E size \in 1..MaxBatchSize, frequency \in {"day", "week"} :
          \E found \in MigDatasets(frequency) :
             mg = [pc |-> "loop", batch_size |-> size, frequency |-> frequency,
                   left |-> MaxDocs, doc |-> [id |-> 0, dates |-> <<0, 0, 0, 0>>],
                   buffers |-> <<>>, partial |-> <<>>, rows |-> <<>>,
                   pending |-> 0, totals |-> 0,
                   files |-> found.files, manifest |-> found.manifest,
                   cache |-> load_manifest_cache(found.manifest)]
    /\ PF_Entry(0, 0, 1, 0, 0, 0)
    /\ db = {} /\ db0 = db
    /\ fn = FN_Idle /\ nd = ND_Idle
    /\ mc = MC_Idle /\ cli = CLI_Idle /\ rq = RQ_Idle

\* the cursor yields a document and the body of the loop runs on it
MG_Read ==
    /\ mg.pc = "loop"
    /\ mg.left > 0
    /\ \E doc \in MigDocs :
          mg' = [MG_OnDocument(mg, doc) EXCEPT !.left = @ - 1, !.doc = doc]
    /\ UNCHANGED <<fetchVars, restVars, fn, nd>>

\* the cursor is exhausted or has failed: the finally clause flushes the
\* buffers and finalizes the partitions
MG_Finally ==
    /\ mg.pc = "loop"
    /\ mg' = [finalize_partitions(flush_buffers(mg)) EXCEPT !.pc = "done"]
    /\ UNCHANGED <<fetchVars, restVars, fn, nd>>

MigNext == MG_Read \/ MG_Finally

SpecMigrate == MigInit /\ [][MigNext]_vars

\* ----------------------------- one migration and its temporary directory
\* The run of SpecMigrate on a dataset root that may hold the temporary
\* directory of an earlier run that was killed. rq keeps tmp_root, whether
\* the directory exists, the ids the manifest cache held when it was loaded,
\* and the ids of the documents read so far that had an id that was not in
\* that cache and a date that resolves.
OnceInit ==
    /\ \E size \in 1..MaxBatchSize, frequency \in {"day", "week"} :
          \E found \in MigDatasets(frequency), left_over \in BOOLEAN :
             /\ mg = [pc |-> "loop", batch_size |-> size,
                      frequency |-> frequency,
                      left |-> MaxDocs, doc |-> [id |-> 0, dates |-> <<0, 0, 0, 0>>],
                      buffers |-> <<>>, partial |-> <<>>, rows |-> <<>>,
                      pending |-> 0, totals |-> 0,
                      files |-> found.files, manifest |-> found.manifest,
                      cache |-> load_manifest_cache(found.manifest)]
             /\ rq = [pc |-> "once", tmp_root |-> left_over,
                      cache0 |-> load_manifest_cache(found.manifest),
                      want |-> {}]
    /\ PF_Entry(0, 0, 1, 0, 0, 0)
    /\ db = {} /\ db0 = db
    /\ fn = FN_Idle /\ nd = ND_Idle
    /\ mc = MC_Idle /\ cli = CLI_Idle

\* the cursor yields a document; flush_buffers makes the temporary directory
\* when it writes a file
MO_Read ==
    /\ mg.pc = "loop"
    /\ mg.left > 0
    /\ \E doc \in MigDocs :
          /\ mg' = [MG_OnDocument(mg, doc) EXCEPT !.left = @ - 1, !.doc = doc]
          /\ rq' = [rq EXCEPT
                       !.tmp_root = @ \/ mg'.partial # mg.partial,
                       !.want = IF /\ doc.id # 0
                                   /\ _event_date(doc.dates) # 0
                                   /\ doc.id \notin rq.cache0
                                THEN @ \cup {doc.id} ELSE @]
    /\ UNCHANGED <<fetchVars, fn, nd, mc, cli>>

\* the finally clause: finalize_partitions returns at once when the run has
\* no partial file, and removes the temporary directory otherwise
MO_Finally ==
    /\ mg.pc = "loop"
    /\ LET flushed == flush_buffers(mg)
       IN  /\ mg' = [finalize_partitions(flushed) EXCEPT !.pc = "done"]
           /\ rq' = [rq EXCEPT !.tmp_root = IF flushed.partial = <<>> THEN @
                                            ELSE FALSE]
    /\ UNCHANGED <<fetchVars, fn, nd, mc, cli>>

OnceNext == MO_Read \/ MO_Finally

SpecOnce == OnceInit /\ [][OnceNext]_vars

\* ------------------------- migrations over one dataset root, with crashes
\* The collection is fixed, its documents have an id and a date, and the
\* runs read it in the same order. The dataset
\* (files, manifest, and out, the file at final_path + ".tmp") outlives a
\* run; buffers, partial, rows, cache and the counters do not.
RunDocs == [id : MigIds, dates : {<<d, 0, 0, 0>> : d \in MigDays}]

Sources == UNION {[1..n -> RunDocs] : n \in 1..MaxSource}

NoOutput == [key |-> <<>>, state |-> "absent", rows |-> <<>>]

\* a run that starts with an empty cache whatever the manifest holds
RS_Enter_EmptyCache(m) ==
    [m EXCEPT !.pc = "loop", !.pos = 1,
              !.doc = [id |-> 0, dates |-> <<0, 0, 0, 0>>],
              !.buffers = <<>>, !.partial = <<>>, !.rows = <<>>,
              !.pending = 0, !.totals = 0, !.i = 0, !.new_rows = <<>>,
              !.normal = FALSE,
              !.cache = {}]

\* main up to the loop over the cursor, on the dataset of record m
RS_Enter(m) ==
    [m EXCEPT !.pc = "loop", !.pos = 1,
              !.doc = [id |-> 0, dates |-> <<0, 0, 0, 0>>],
              !.buffers = <<>>, !.partial = <<>>, !.rows = <<>>,
              !.pending = 0, !.totals = 0, !.i = 0, !.new_rows = <<>>,
              !.normal = FALSE,
              !.cache = load_manifest_cache(m.manifest)]

RestartInit ==
    /\ \E size \in 1..MaxBatchSize, frequency \in {"day", "week"},
          source \in Sources :
          \E found \in MigDatasets(frequency) :
             mg = RS_Enter(
                    [pc |-> "loop", batch_size |-> size, frequency |-> frequency,
                     source |-> source, pos |-> 1, left |-> 0,
                     doc |-> [id |-> 0, dates |-> <<0, 0, 0, 0>>],
                     buffers |-> <<>>, partial |-> <<>>, rows |-> <<>>,
                     pending |-> 0, totals |-> 0, i |-> 0, new_rows |-> <<>>,
                     normal |-> FALSE, cache |-> {},
                     files |-> found.files, manifest |-> found.manifest,
                     out |-> NoOutput, crashes |-> 0, runs |-> 1,
                     prev |-> [ok |-> FALSE, files |-> <<>>, manifest |-> <<>>]])
    /\ PF_Entry(0, 0, 1, 0, 0, 0)
    /\ db = {} /\ db0 = db
    /\ fn = FN_Idle /\ nd = ND_Idle
    /\ mc = MC_Idle /\ cli = CLI_Idle /\ rq = RQ_Idle

\* the cursor yields the next document and the body of the loop runs on it
RS_Read ==
    /\ mg.pc = "loop"
    /\ mg.pos <= Len(mg.source)
    /\ mg' = [MG_OnDocument(mg, mg.source[mg.pos]) EXCEPT
                 !.pos = @ + 1, !.doc = mg.source[mg.pos]]
    /\ UNCHANGED <<fetchVars, restVars, fn, nd>>

\* how a run ends after its finally clause: it returns when the cursor was
\* exhausted, the error of the cursor is raised again otherwise
RS_End(m) == IF m.normal THEN "done" ELSE "failed"

\* the finally clause begins: flush_buffers, then finalize_partitions up to
\* its loop (it returns at once when there is no temporary file)
RS_Finally ==
    /\ mg.pc = "loop"
    /\ LET m == [flush_buffers(mg) EXCEPT !.normal = mg.pos > Len(mg.source)]
       IN  mg' = IF m.partial = <<>> THEN [m EXCEPT !.pc = RS_End(m)]
                 ELSE [m EXCEPT !.pc = "write", !.i = 1]
    /\ UNCHANGED <<fetchVars, restVars, fn, nd>>

\* combined.to_parquet(tmp_output) has begun
RS_WriteSome ==
    /\ mg.pc = "write"
    /\ LET t == mg.partial[mg.i]
           combined == Combined(mg.files, t)
       IN  mg' = [mg EXCEPT
                     !.out = [key |-> t.key, state |-> "torn",
                              rows |-> SubSeq(combined, 1, Len(combined) - 1)],
                     !.pc = "finish"]
    /\ UNCHANGED <<fetchVars, restVars, fn, nd>>

\* combined.to_parquet(tmp_output) is complete
RS_WriteAll ==
    /\ mg.pc = "finish"
    /\ LET t == mg.partial[mg.i]
       IN  mg' = [mg EXCEPT
                     !.out = [key |-> t.key, state |-> "whole",
                              rows |-> Combined(mg.files, t)],
                     !.pc = "replace"]
    /\ UNCHANGED <<fetchVars, restVars, fn, nd>>

\* tmp_output.replace(final_path), the temporary files are unlinked and the
\* manifest rows of the target are collected
RS_Replace ==
    /\ mg.pc = "replace"
    /\ LET t == mg.partial[mg.i]
       IN  mg' = [mg EXCEPT
                     !.files = PutFile(@, t.key, mg.out.rows),
                     !.out = NoOutput,
                     !.new_rows = @ \o DictGet(mg.rows, t.key),
                     !.i = @ + 1,
                     !.pc = IF mg.i < Len(mg.partial) THEN "write"
                            ELSE "manifest"]
    /\ UNCHANGED <<fetchVars, restVars, fn, nd>>

\* the new rows are appended to the manifest, the manifest is written and
\* the cache updated; partial_files and manifest_rows are cleared
RS_Manifest ==
    /\ mg.pc = "manifest"
    /\ mg' = [mg EXCEPT
                 !.manifest = @ \o mg.new_rows,
                 !.cache = update_manifest_cache(@, mg.new_rows),
                 !.partial = <<>>, !.rows = <<>>,
                 !.pc = RS_End(mg)]
    /\ UNCHANGED <<fetchVars, restVars, fn, nd>>

\* the process dies, or a write raises inside the finally clause: the run
\* is over and the dataset stays as it is
RS_Crash ==
    /\ mg.pc \in {"loop", "write", "finish", "replace", "manifest"}
    /\ mg.crashes < MaxCrashes
    /\ mg' = [RS_Enter(mg) EXCEPT !.pc = "dead", !.cache = {},
                                  !.crashes = @ + 1]
    /\ UNCHANGED <<fetchVars, restVars, fn, nd>>

\* the script is run again on the same dataset root and collection
RS_Start ==
    /\ mg.pc \in {"done", "failed", "dead"}
    /\ mg.runs < MaxRuns
    /\ mg' = [RS_Enter(mg) EXCEPT
                 !.runs = @ + 1,
                 !.prev = [ok |-> mg.pc = "done", files |-> mg.files,
                           manifest |-> mg.manifest]]
    /\ UNCHANGED <<fetchVars, restVars, fn, nd>>

RestartNext ==
    \/ RS_Read
    \/ RS_Finally
    \/ RS_WriteSome
    \/ RS_WriteAll
    \/ RS_Replace
    \/ RS_Manifest
    \/ RS_Crash
    \/ RS_Start

SpecRestart == RestartInit /\ [][RestartNext]_vars

\* ------------------------------- two batches written to one partition
\* Three copies of one dataset: on the first, batch a is finalized and then
\* batch b; on the second, b and then a; on the third, both in one pass,
\* each from its own temporary file.
MergeRows == [id : MigIds, date : {1}]

MergeBatches == UNION {[1..n -> MergeRows] : n \in 1..MaxRows}

MergeTarget == _partition_target(1, "day")

\* the partition file before the writes: absent, or one row of an earlier run
MergeBefore ==
    {<<>>, <<[key |-> MergeTarget, items |-> <<[id |-> 1, date |-> 1]>>]>>}

\* finalize_partitions on the files, with the given temporary files waiting
\* for the target
MergePass(files, temp_files) ==
    finalize_partitions(
        [files |-> files,
         partial |-> <<[key |-> MergeTarget, items |-> temp_files]>>,
         rows |-> <<>>, manifest |-> <<>>, cache |-> {}]).files

MergeInit ==
    /\ \E a \in MergeBatches, b \in MergeBatches, before \in MergeBefore :
          mg = [pc |-> "merge", a |-> a, b |-> b,
                ab |-> [passes |-> 0, files |-> before],
                ba |-> [passes |-> 0, files |-> before],
                one |-> [passes |-> 0, files |-> before]]
    /\ PF_Entry(0, 0, 1, 0, 0, 0)
    /\ db = {} /\ db0 = db
    /\ fn = FN_Idle /\ nd = ND_Idle
    /\ mc = MC_Idle /\ cli = CLI_Idle /\ rq = RQ_Idle

\* a run on the first copy: it writes a, the run after it b
MR_ThenB ==
    /\ mg.pc = "merge"
    /\ mg.ab.passes < 2
    /\ mg' = [mg EXCEPT
                 !.ab = [passes |-> @.passes + 1,
                         files |-> MergePass(@.files,
                                             IF @.passes = 0 THEN <<mg.a>>
                                             ELSE <<mg.b>>)]]
    /\ UNCHANGED <<fetchVars, restVars, fn, nd>>

\* a run on the second copy: it writes b, the run after it a
MR_ThenA ==
    /\ mg.pc = "merge"
    /\ mg.ba.passes < 2
    /\ mg' = [mg EXCEPT
                 !.ba = [passes |-> @.passes + 1,
                         files |-> MergePass(@.files,
                                             IF @.passes = 0 THEN <<mg.b>>
                                             ELSE <<mg.a>>)]]
    /\ UNCHANGED <<fetchVars, restVars, fn, nd>>

\* the run on the third copy writes both batches
MR_Both ==
    /\ mg.pc = "merge"
    /\ mg.one.passes < 1
    /\ mg' = [mg EXCEPT
                 !.one = [passes |-> 1,
                          files |-> MergePass(@.files, <<mg.a, mg.b>>)]]
    /\ UNCHANGED <<fetchVars, restVars, fn, nd>>

MergeNext == MR_ThenB \/ MR_ThenA \/ MR_Both

SpecMerge == MergeInit /\ [][MergeNext]_vars

\* --------------------------------- run.py: get; daily_parquet_export: main
\* The commands as the processes they run in: the options and environment
\* they start with, the place they are at, what they have sent (http) and
\* opened (conn), and the status and message they exit with. Dates are
\* days, 0 an option that is not given; the process starts on day MaxDate.
CliOptions ==
    [cmd : {"get"}, token : BOOLEAN, start_date : 0..MaxDate,
     end_date : 0..MaxDate, days : {-1, 0, 1}, store : {"mongo", "parquet"},
     output_file : BOOLEAN, events : 1..MaxEvents, flag : BOOLEAN,
     date_ok : {TRUE}]
    \cup
    [cmd : {"daily"}, token : BOOLEAN, start_date : {0}, end_date : {0},
     days : {0}, store : {"parquet"}, output_file : {TRUE},
     events : 1..MaxEvents, flag : {FALSE}, date_ok : BOOLEAN]

\* end_date, or now
EndDay(o) == IF o.end_date # 0 THEN o.end_date ELSE MaxDate

\* start_date unless --days is present too, else end_date minus the days
StartDay(o) ==
    IF o.start_date # 0 /\ o.days = 0 THEN o.start_date
    ELSE EndDay(o) - (IF o.days # 0 THEN o.days ELSE DEFAULT_DAYS_WINDOW)

\* the since and until of the fetch; the microsecond added to the start is
\* one tick
SinceOf(o) == StartDay(o) * TicksPerDay + 1

UntilOf(o) == EndDay(o) * TicksPerDay

\* a process that takes a missing token for a given one
TokenMissing_Never(o) == FALSE

\* not token
TokenMissing(o) == ~o.token

\* a parallel_fetch that takes the keywords of the get command and hands
\* back the triple the command unpacks
PF_Call_AsCalled(keywords, s, u) ==
    [raised |-> FALSE, requests |-> IF s < u THEN 1 ELSE 0, unpacks |-> TRUE]

\* the call of parallel_fetch with keywords: a TypeError when a keyword is
\* no parameter; else a request at least when a window is planned, and a
\* value that the caller can unpack when it is a triple
PF_Call(keywords, s, u) ==
    IF keywords \subseteq PF_Parameters
    THEN [raised |-> FALSE, requests |-> IF s < u THEN 1 ELSE 0,
          unpacks |-> PF_Return.kind = "triple"]
    ELSE [raised |-> TRUE, requests |-> 0, unpacks |-> FALSE]

CliExit(c, status, message) ==
    [c EXCEPT !.pc = "exited", !.status = status, !.message = message]

CliInit ==
    /\ \E o \in CliOptions :
          cli = [pc |-> "token", opt |-> o, ev |-> 0, http |-> 0, conn |-> 0,
                 status |-> 0, message |-> ""]
    /\ PF_Entry(0, 0, 1, 0, 0, 0)
    /\ db = {} /\ db0 = db
    /\ fn = FN_Idle /\ nd = ND_Idle /\ mg = MG_Idle /\ mc = MC_Idle
    /\ rq = RQ_Idle

\* the token is read: without one the command exits with a message
CLI_Token ==
    /\ cli.pc = "token"
    /\ cli' = IF TokenMissing(cli.opt)
              THEN CliExit(cli, 1,
                           IF cli.opt.cmd = "get"
                           THEN "ERROR: SENTRY_TOKEN environment variable not set"
                           ELSE "SENTRY_TOKEN is required (via --token or env var).")
              ELSE [cli EXCEPT !.pc = "dates"]
    /\ UNCHANGED <<fetchVars, fn, nd, mg, mc, rq>>

\* get: the dates are resolved and the store options checked
CLI_GetDates ==
    /\ cli.pc = "dates"
    /\ cli.opt.cmd = "get"
    /\ cli' = IF /\ cli.opt.store = "parquet"
                 /\ cli.opt.output_file
                 /\ cli.opt.events > 1
              THEN CliExit(cli, 2,
                           "ERROR: --output-file can only be used with a single --event to avoid overwrites.")
              ELSE [cli EXCEPT !.pc = "lookup", !.ev = 1]
    /\ UNCHANGED <<fetchVars, fn, nd, mg, mc, rq>>

\* get: mongo_id_lookup for the event when the store is mongo
CLI_GetLookup ==
    /\ cli.pc = "lookup"
    /\ cli' = IF cli.opt.store # "mongo" THEN [cli EXCEPT !.pc = "fetch"]
              ELSE IF ~cli.opt.flag THEN CliExit(cli, 1, "RuntimeError")
              ELSE [cli EXCEPT !.pc = "fetch", !.conn = @ + 1]
    /\ UNCHANGED <<fetchVars, fn, nd, mg, mc, rq>>

\* get: the body of the loop from the call of parallel_fetch on. When the
\* call raises, or its value cannot be unpacked, the command ends with the
\* traceback of a TypeError; else the records are stored or written, and
\* the next event follows or the command finishes
CLI_GetFetch ==
    /\ cli.pc = "fetch"
    /\ LET call == PF_Call(GetKeywords, SinceOf(cli.opt), UntilOf(cli.opt))
           sent == [cli EXCEPT !.http = @ + call.requests]
           stored == IF cli.opt.store = "mongo" /\ call.requests > 0
                     THEN [sent EXCEPT !.conn = @ + 1] ELSE sent
       IN  cli' = IF call.raised \/ ~call.unpacks
                  THEN CliExit(sent, 1, "TypeError")
                  ELSE IF cli.ev < cli.opt.events
                  THEN [stored EXCEPT !.pc = "lookup", !.ev = @ + 1]
                  ELSE CliExit(stored, 0, "[Finished]")
    /\ UNCHANGED <<fetchVars, fn, nd, mg, mc, rq>>

\* daily export: --date is parsed
CLI_DailyDate ==
    /\ cli.pc = "dates"
    /\ cli.opt.cmd = "daily"
    /\ cli' = IF ~cli.opt.date_ok
              THEN CliExit(cli, 1, "--date must be in YYYYMMDD format.")
              ELSE [cli EXCEPT !.pc = "events", !.ev = 1]
    /\ UNCHANGED <<fetchVars, fn, nd, mg, mc, rq>>

\* daily export: fetch_events for an event type sends a request at least;
\* after the last the parquet file is written
CLI_DailyFetch ==
    /\ cli.pc = "events"
    /\ cli' = IF cli.ev < cli.opt.events
              THEN [cli EXCEPT !.http = @ + 1, !.ev = @ + 1]
              ELSE CliExit([cli EXCEPT !.http = @ + 1], 0, "")
    /\ UNCHANGED <<fetchVars, fn, nd, mg, mc, rq>>

CliNext ==
    \/ CLI_Token
    \/ CLI_GetDates
    \/ CLI_GetLookup
    \/ CLI_GetFetch
    \/ CLI_DailyDate
    \/ CLI_DailyFetch

SpecCli == CliInit /\ [][CliNext]_vars

\* ------------------------ export_daily_parquet.py: _resolve_day_range
\* Dates are days 1..MaxCal, 0 is None. --num-days is an integer or absent
\* (given = FALSE).
DayArgs ==
    [earliest : 1..MaxCal, latest_complete : 1..MaxCal,
     start_date : 0..MaxCal, end_date : 0..MaxCal,
     given : {TRUE}, num_days : -1..MaxCal]
    \cup
    [earliest : 1..MaxCal, latest_complete : 1..MaxCal,
     start_date : 0..MaxCal, end_date : 0..MaxCal,
     given : {FALSE}, num_days : {0}]

\* the truth value of num_days: None and 0 are false
Truthy(a) == a.given /\ a.num_days # 0

\* the loop of _resolve_day_range: the days from start to end, none when
\* start is after end
DaysFrom(start, end) ==
    IF start > end THEN <<>> ELSE [i \in 1..(end - start + 1) |-> start + i - 1]

\* a range that reaches num_days days back from, or on from, its bound
_resolve_day_range_OffByOne(a) ==
    IF a.start_date # 0 /\ a.end_date # 0
    THEN IF a.start_date > a.end_date
         THEN [raised |-> TRUE, days |-> <<>>]
         ELSE [raised |-> FALSE, days |-> DaysFrom(a.start_date, a.end_date)]
    ELSE IF a.end_date # 0
    THEN [raised |-> FALSE,
          days |-> DaysFrom(IF Truthy(a) THEN a.end_date - a.num_days
                            ELSE a.earliest,
                            a.end_date)]
    ELSE IF a.start_date # 0
    THEN [raised |-> FALSE,
          days |-> DaysFrom(a.start_date,
                            IF Truthy(a) THEN a.start_date + a.num_days
                            ELSE a.latest_complete)]
    ELSE [raised |-> FALSE,
          days |-> DaysFrom(IF Truthy(a) THEN a.latest_complete - a.num_days
                            ELSE a.earliest,
                            a.latest_complete)]

\* _resolve_day_range: the list of days, or the ValueError
_resolve_day_range(a) ==
    IF a.start_date # 0 /\ a.end_date # 0
    THEN IF a.start_date > a.end_date
         THEN [raised |-> TRUE, days |-> <<>>]
         ELSE [raised |-> FALSE, days |-> DaysFrom(a.start_date, a.end_date)]
    ELSE IF a.end_date # 0
    THEN [raised |-> FALSE,
          days |-> DaysFrom(IF Truthy(a) THEN a.end_date - (a.num_days - 1)
                            ELSE a.earliest,
                            a.end_date)]
    ELSE IF a.start_date # 0
    THEN [raised |-> FALSE,
          days |-> DaysFrom(a.start_date,
                            IF Truthy(a) THEN a.start_date + (a.num_days - 1)
                            ELSE a.latest_complete)]
    ELSE [raised |-> FALSE,
          days |-> DaysFrom(IF Truthy(a) THEN a.latest_complete - (a.num_days - 1)
                            ELSE a.earliest,
                            a.latest_complete)]

\* main has the bounds of the collections and the options
DaysInit ==
    /\ \E a \in DayArgs :
          cli = [pc |-> "bounds", args |-> a, raised |-> FALSE, days |-> <<>>]
    /\ PF_Entry(0, 0, 1, 0, 0, 0)
    /\ db = {} /\ db0 = db
    /\ fn = FN_Idle /\ nd = ND_Idle /\ mg = MG_Idle /\ mc = MC_Idle
    /\ rq = RQ_Idle

\* main calls _resolve_day_range
RD_Resolve ==
    /\ cli.pc = "bounds"
    /\ LET r == _resolve_day_range(cli.args)
       IN  cli' = [cli EXCEPT !.pc = "resolved", !.raised = r.raised,
                              !.days = r.days]
    /\ UNCHANGED <<fetchVars, fn, nd, mg, mc, rq>>

DaysNext == RD_Resolve

SpecDays == DaysInit /\ [][DaysNext]_vars

\* ------------------- fetch_window and fetch_events on the same responses
\* Both fetchers run on one event type, one window and one max_errors; the
\* k-th request of each is answered by the k-th response of the server. The
\* pages hold new events only, each once, so that every insert of
\* fetch_window goes through; cached_limit is unset. A URL is modelled by
\* the cursor it carries, NONE for the bare base_url. Retry-After is -1 when
\* the header is absent, else the seconds it names. A sleep is counted in
\* tenths of a second, 0 when none is taken.
PairResponses ==
    [status : {429}, retry : {-1, 0, 3}, link : {NoLink}]
    \cup [status : {500}, retry : {-1}, link : {NoLink}]
    \cup [status : {200}, retry : {-1}, link : Links]

\* a fetcher before its first request
PairStart(maxerr) ==
    [pc |-> "send", maxerr |-> maxerr, cursor |-> NONE, url |-> NONE,
     errors |-> 0, slept |-> 0]

\* a back-off whose exponent is the error counter after the increment
OnFailure_ExpAfter(f, resp) ==
    LET errs == f.errors + 1
        wait == IF resp.retry # -1 THEN resp.retry ELSE 2 ^ errs
    IN  IF resp.status = 429
        THEN [f EXCEPT !.slept = 10 * wait + 1, !.errors = errs,
                       !.pc = IF TooMany(errs, f.maxerr) THEN "done" ELSE "send"]
        ELSE [f EXCEPT !.errors = errs,
                       !.slept = IF TooMany(errs, f.maxerr) THEN 0 ELSE 10 * errs,
                       !.pc = IF TooMany(errs, f.maxerr) THEN "done" ELSE "send"]

\* the handling of a failed response, the same in both fetchers: a 429
\* sleeps int(Retry-After or 2**errors) + 0.1 seconds and then counts, any
\* other failure counts and then aborts or sleeps errors seconds
OnFailure(f, resp) ==
    LET errs == f.errors + 1
        wait == IF resp.retry # -1 THEN resp.retry ELSE 2 ^ f.errors
    IN  IF resp.status = 429
        THEN [f EXCEPT !.slept = 10 * wait + 1, !.errors = errs,
                       !.pc = IF TooMany(errs, f.maxerr) THEN "done" ELSE "send"]
        ELSE [f EXCEPT !.errors = errs,
                       !.slept = IF TooMany(errs, f.maxerr) THEN 0 ELSE 10 * errs,
                       !.pc = IF TooMany(errs, f.maxerr) THEN "done" ELSE "send"]

\* the handling of a successful page, the same in both fetchers: the error
\* counter is reset and the next link decides
OnSuccess(f, resp) ==
    [f EXCEPT !.errors = 0, !.slept = 0,
              !.cursor = IF EndOfPages(resp.link) THEN @ ELSE resp.link.cursor,
              !.pc = IF EndOfPages(resp.link) THEN "done" ELSE "send"]

\* fetch_window: one turn of its loop
WindowTurn(f, resp) ==
    LET sent == [f EXCEPT !.url = RequestUrl(f.cursor, f.url)]
    IN  IF resp.status = 200 THEN OnSuccess(sent, resp)
        ELSE OnFailure(sent, resp)

\* fetch_events: one turn of its loop
EventsTurn(f, resp) ==
    LET sent == [f EXCEPT !.url = f.cursor]
    IN  IF resp.status = 200 THEN OnSuccess(sent, resp)
        ELSE OnFailure(sent, resp)

PairInit ==
    /\ \E maxerr \in 1..MaxErrArg :
          rq = [pc |-> "pair", n |-> 0,
                resp |-> [status |-> 200, retry |-> -1, link |-> NoLink],
                w |-> PairStart(EffMaxErrors(maxerr)),
                e |-> PairStart(maxerr)]
    /\ PF_Entry(0, 0, 1, 0, 0, 0)
    /\ db = {} /\ db0 = db
    /\ fn = FN_Idle /\ nd = ND_Idle /\ mg = MG_Idle
    /\ mc = MC_Idle /\ cli = CLI_Idle

\* the fetchers that still ask have sent their next request and handled
\* the response
Answered(r, resp) ==
    [r EXCEPT !.n = @ + 1,
              !.resp = resp,
              !.w = IF @.pc = "send" THEN WindowTurn(@, resp)
                    ELSE [@ EXCEPT !.slept = 0],
              !.e = IF @.pc = "send" THEN EventsTurn(@, resp)
                    ELSE [@ EXCEPT !.slept = 0]]

\* the server answers the next request with a failure
RQ_Failure ==
    /\ rq.pc = "pair"
    /\ rq.n < MaxReq
    /\ rq.w.pc = "send" \/ rq.e.pc = "send"
    /\ \E resp \in {r \in PairResponses : r.status # 200} :
          rq' = Answered(rq, resp)
    /\ UNCHANGED <<fetchVars, fn, nd, mg, mc, cli>>

\* the server answers the next request with a page
RQ_Page ==
    /\ rq.pc = "pair"
    /\ rq.n < MaxReq
    /\ rq.w.pc = "send" \/ rq.e.pc = "send"
    /\ \E resp \in {r \in PairResponses : r.status = 200} :
          rq' = Answered(rq, resp)
    /\ UNCHANGED <<fetchVars, fn, nd, mg, mc, cli>>

PairNext == RQ_Failure \/ RQ_Page

SpecPair == PairInit /\ [][PairNext]_vars

\* --------------------------- fetch_window on pages with unmarked events
\* One direct call with cached_limit unset. The events without the
\* environment=prod tag have id 0, which no marked event has. rq counts
\* what the server has put on the successful pages: marked, the events with
\* the tag, and unmarked, whether an event without it was among them.
MarkedBodies ==
    UNION {[1..n -> [id : Ids, prod : {TRUE}] \cup {[id |-> 0, prod |-> FALSE]}]
               : n \in 0..MaxPageLen}

MarkedResponses(lastPage) ==
    FailedResponses \cup
    [status : {200}, body : MarkedBodies,
     link : IF lastPage THEN FinalLinks ELSE {l \in Links : l.cursor # "c2"}]

MarkedInit ==
    /\ since = 0 /\ until = TicksPerDay /\ days_per_chunk = 1
    /\ max_workers = 1
    /\ cached_limit = 0
    /\ max_errors = 1
    /\ pf_pc = "direct"
    /\ cur = since
    /\ windows = <<<<since, until>>>>
    /\ sum_new = 0 /\ sum_total = 0
    /\ submitted = 0
    /\ collected = {}
    /\ fw = <<[FW_Entry(max_errors, cached_limit)
                 EXCEPT !.window = <<since, until>>, !.runs = 1]>>
    /\ db \in StoredBefore /\ db0 = db
    /\ fn = FN_Idle /\ nd = ND_Idle /\ mg = MG_Idle
    /\ mc = MC_Idle /\ cli = CLI_Idle
    /\ rq = [pc |-> "marked", marked |-> 0, unmarked |-> FALSE]

\* the response arrives and is handled up to the dedup query
FM_Recv ==
    /\ fw[1].pc = "recv"
    /\ \E resp \in MarkedResponses(fw[1].pages + 1 >= MaxPages) :
          /\ fw' = [fw EXCEPT ![1] = FW_Leave(IF resp.status = 200
                                              THEN FW_OnPage(fw[1], resp, db)
                                              ELSE FW_OnFailure(fw[1], resp))]
          /\ rq' = IF resp.status # 200 THEN rq
                   ELSE [rq EXCEPT
                            !.marked = @ + Cardinality(
                                {i \in DOMAIN resp.body : resp.body[i].prod}),
                            !.unmarked = @ \/ \E i \in DOMAIN resp.body :
                                                ~resp.body[i].prod]
    /\ UNCHANGED <<argVars, pf_pc, planVars, poolVars, db, db0, fn, nd, mg, mc,
                   cli>>

MarkedNext == FW_Send(1) \/ FM_Recv \/ FW_Store(1)

SpecMarked == MarkedInit /\ [][MarkedNext]_vars

\* ----------------------------------- two windows that share their events
\* ids of the events the two windows may both report
RaceIds == 1..(MaxIds + 1)

\* the server answers each window with one last page of up to two prod
\* events
RaceResponses ==
    LET ev == [id : RaceIds, prod : {TRUE}]
        bodies == {<<>>} \cup {<<e>> : e \in ev}
                         \cup {<<e, f>> : e \in ev, f \in ev}
    IN  [status : {200}, body : bodies, link : {NoLink}]

\* a run over two days with a thread for each window
RaceInit ==
    /\ PF_Entry(0, 2 * TicksPerDay, 1, 2, 0, 1)
    /\ db \in StoredBefore /\ db0 = db
    /\ fn = FN_Idle /\ nd = ND_Idle /\ mg = MG_Idle
    /\ mc = MC_Idle /\ cli = CLI_Idle /\ rq = RQ_Idle

RaceNext ==
    \/ PF_PlanStep
    \/ PF_PlanExit
    \/ PF_Submit
    \/ PF_Submitted
    \/ \E w \in 1..Len(windows) : W_Start(w)
    \/ \E w \in 1..Len(windows) : FW_Send(w)
    \/ \E w \in 1..Len(windows) : FW_Recv(w, RaceResponses)
    \/ \E w \in 1..Len(windows) : FW_Store(w)
    \/ \E w \in 1..Len(windows) : PF_Collect(w)
    \/ PF_Finish

SpecRace == RaceInit /\ [][RaceNext]_vars

\* ------------------------------------------ the MongoDB feature flag
\* The functions of db.py and one fetch_window call in a process whose
\* environment holds FMRIPREP_STATS_ENABLE_MONGO with one of FlagValues ("":
\* unset). rq keeps the value, conn, the connections opened (MongoClient()),
\* calls, the calls of db.py functions made, and last, how the last of them
\* ended.
FlagValues == {"", "0", "1", "True"}

\* str.lower on the values of the model
Lower(v) == IF v = "True" THEN "true" ELSE v

\* _mongo_enabled
_mongo_enabled(v) == Lower(v) \in {"1", "true", "yes", "on"}

FlagInit ==
    /\ since = 0 /\ until = TicksPerDay /\ days_per_chunk = 1
    /\ max_workers = 1
    /\ cached_limit = 0
    /\ max_errors = 1
    /\ pf_pc = "direct"
    /\ cur = since
    /\ windows = <<<<since, until>>>>
    /\ sum_new = 0 /\ sum_total = 0
    /\ submitted = 0
    /\ collected = {}
    /\ fw = <<[FW_Queued EXCEPT !.window = <<since, until>>]>>
    /\ db \in StoredBefore /\ db0 = db
    /\ fn = FN_Idle /\ nd = ND_Idle /\ mg = MG_Idle
    /\ mc = MC_Idle /\ cli = CLI_Idle
    /\ \E v \in FlagValues :
          rq = [pc |-> "flag", value |-> v, conn |-> 0, calls |-> 0,
                last |-> NONE]

\* a db.py function that ends in _require_mongo_enabled
Disabled(r) == [r EXCEPT !.calls = @ + 1, !.last = "RuntimeError"]

\* a db.py function that has passed the flag and opened a connection
Connected(r) == [r EXCEPT !.calls = @ + 1, !.conn = @ + 1, !.last = "ok"]

\* mongo_id_lookup(event_name)
FL_Lookup ==
    /\ rq.pc = "flag" /\ fw[1].pc = "queued" /\ rq.calls < MaxCalls
    /\ rq' = IF _mongo_enabled(rq.value) THEN Connected(rq) ELSE Disabled(rq)
    /\ UNCHANGED <<fetchVars, fn, nd, mg, mc, cli>>

\* store_events(event_name, records): with no record it returns 0 before it
\* connects
FL_StoreEvents ==
    /\ rq.pc = "flag" /\ fw[1].pc = "queued" /\ rq.calls < MaxCalls
    /\ \E docs \in {<<>>, <<2>>} :
          IF ~_mongo_enabled(rq.value)
          THEN rq' = Disabled(rq) /\ db' = db
          ELSE IF docs = <<>>
          THEN rq' = [rq EXCEPT !.calls = @ + 1, !.last = "ok"] /\ db' = db
          ELSE /\ rq' = [Connected(rq) EXCEPT
                           !.last = IF insert_many(docs, db).ok THEN "ok"
                                    ELSE "BulkWriteError"]
               /\ db' = insert_many(docs, db).coll
    /\ UNCHANGED <<argVars, pf_pc, planVars, poolVars, fw, db0, fn, nd, mg, mc,
                   cli>>

\* load_event(event_name)
FL_Load ==
    /\ rq.pc = "flag" /\ fw[1].pc = "queued" /\ rq.calls < MaxCalls
    /\ rq' = IF ~_mongo_enabled(rq.value) THEN Disabled(rq)
             ELSE [Connected(rq) EXCEPT
                      !.last = IF db = {} THEN "No records" ELSE "ok"]
    /\ UNCHANGED <<fetchVars, fn, nd, mg, mc, cli>>

\* fetch_window up to its loop: it opens the collection and creates the
\* index without reading the flag
FL_Enter ==
    /\ rq.pc = "flag" /\ fw[1].pc = "queued"
    /\ fw' = [fw EXCEPT ![1] = [FW_Entry(max_errors, cached_limit)
                                EXCEPT !.window = fw[1].window, !.runs = 1]]
    /\ rq' = [rq EXCEPT !.conn = @ + 1]
    /\ UNCHANGED <<argVars, pf_pc, planVars, poolVars, db, db0, fn, nd, mg, mc,
                   cli>>

FlagNext ==
    \/ FL_Lookup
    \/ FL_StoreEvents
    \/ FL_Load
    \/ FL_Enter
    \/ FW_Send(1)
    \/ FW_Recv(1, RaceResponses)
    \/ FW_Store(1)

SpecFlag == FlagInit /\ [][FlagNext]_vars

\* --------------------------------------------- parallel_fetch: properties
\* C3: when since equals until the planner makes no window, no fetch_window
\* call is submitted (so no request is sent), parallel_fetch does not raise,
\* and the sums it reports are 0 new and 0 total
C3_EmptyRange ==
    since = until =>
        /\ windows = <<>>
        /\ fw = <<>>
        /\ submitted = 0
        /\ sum_new = 0 /\ sum_total = 0
        /\ pf_pc # "raised"

\* parallel_fetch has finished on an empty range
C3_Witness == since = until /\ pf_pc = "done"

\* sum of cnt over the calls of S
RECURSIVE SumOver(_, _)
SumOver(cnt, S) ==
    IF S = {} THEN 0
    ELSE LET w == CHOOSE x \in S : TRUE
         IN  cnt[w] + SumOver(cnt, S \ {w})

\* the calls that returned
Returned == {w \in DOMAIN fw : fw[w].pc = "returned"}

\* C10: a call that raises changes nothing of any other call, the exception
\* never leaves parallel_fetch, and when parallel_fetch has finished every
\* window's call has ended, sum_new and sum_total being the sums of the
\* counts of the calls that returned (a call that raised adds nothing)
C10_FailureIsolated ==
    /\ [](/\ pf_pc # "raised"
          /\ pf_pc = "done" =>
                /\ DOMAIN fw = 1..Len(windows)
                /\ \A w \in DOMAIN fw : fw[w].pc \in {"returned", "raised"}
                /\ sum_new =
                      SumOver([w \in DOMAIN fw |-> fw[w].new_records], Returned)
                /\ sum_total =
                      SumOver([w \in DOMAIN fw |-> fw[w].total_records], Returned))
    /\ [][\A w \in DOMAIN fw :
            (fw[w].pc # "raised" /\ fw'[w].pc = "raised") =>
                /\ DOMAIN fw' = DOMAIN fw
                /\ \A v \in DOMAIN fw \ {w} : fw'[v] = fw[v]
                /\ UNCHANGED <<pf_pc, sum_new, sum_total, collected>>]_vars

\* parallel_fetch has finished with one call that raised and one that
\* returned records, which are in the sums
C10_Witness ==
    /\ pf_pc = "done"
    /\ \E w \in DOMAIN fw : fw[w].pc = "raised" /\ fw[w].new_records >= 1
    /\ \E v \in DOMAIN fw : fw[v].pc = "returned" /\ fw[v].new_records >= 1
    /\ sum_new >= 1

\* C11: whatever the order in which the calls end and are collected, sum_new
\* and sum_total are at every moment the sums of the (new, total) pairs of
\* the collected calls that returned, and once parallel_fetch has finished
\* every call has been collected, so that the totals are those of all the
\* windows that succeeded
C11_OrderIndependent ==
    pf_pc \in {"collect", "done"} =>
        /\ sum_new =
              SumOver([w \in DOMAIN fw |-> fw[w].new_records],
                      collected \cap Returned)
        /\ sum_total =
              SumOver([w \in DOMAIN fw |-> fw[w].total_records],
                      collected \cap Returned)
        /\ pf_pc = "done" => collected = DOMAIN fw

\* the call submitted second has been collected before the one submitted
\* first, which has returned too, both with a record
C11_Witness ==
    /\ pf_pc = "collect"
    /\ collected = {2}
    /\ fw[1].pc = "returned" /\ fw[1].total_records >= 1
    /\ fw[2].pc = "returned" /\ fw[2].total_records >= 1
    /\ sum_total = fw[2].total_records

\* the most calls that may run at once: max_workers, or the CPU count of the
\* host when max_workers is unset or below 1
WorkerLimit == IF max_workers >= 1 THEN max_workers ELSE CpuCount

\* the calls a thread is executing
Executing == {w \in DOMAIN fw : fw[w].pc \in {"send", "recv", "store"}}

\* C12: at every moment at most WorkerLimit calls of fetch_window are
\* executing, each on a pool thread of its own; a thread stays with the call
\* it took until that call has ended, and only an idle thread takes a queued
\* call
C12_BoundedWorkers ==
    /\ [](/\ Cardinality(Executing) <= WorkerLimit
          /\ \A w \in Executing : fw[w].thread \in 1..WorkerLimit
          /\ \A v, w \in Executing : fw[v].thread = fw[w].thread => v = w)
    /\ [][\A w \in Executing :
            /\ fw'[w].pc # "queued"
            /\ fw'[w].pc \in {"send", "recv", "store"} =>
                  fw'[w].thread = fw[w].thread
            /\ \A v \in DOMAIN fw \ Executing :
                  fw'[v].pc \in {"send", "recv", "store"} =>
                      fw'[v].thread # fw[w].thread]_vars

\* the pool is full: one thread, busy with the first window while the
\* second waits in the queue
C12_Witness ==
    /\ max_workers = 1
    /\ Cardinality(Executing) = WorkerLimit
    /\ \E w \in DOMAIN fw : fw[w].pc = "queued"
    /\ \E w \in Executing : fw[w].pages >= 1

\* C13: fetch_window is entered at most once for a submitted window and a
\* call ends only by its own exit from the loop or its own exception, never
\* unstarted and never cut short; when parallel_fetch has finished there is
\* one call per planned window, in the order of the plan, each entered
\* exactly once and each ended (returned or raised)
C13_EachWindowOnce ==
    /\ \A w \in DOMAIN fw :
          /\ fw[w].runs = IF fw[w].pc = "queued" THEN 0 ELSE 1
          /\ fw[w].pc \in {"returned", "raised"} <=>
                fw[w].exit \in {"abort", "cached", "end", "raise"}
    /\ pf_pc = "done" =>
          /\ Len(fw) = Len(windows)
          /\ \A w \in DOMAIN fw :
                /\ fw[w].window = windows[w]
                /\ fw[w].runs = 1
                /\ fw[w].pc \in {"returned", "raised"}

\* parallel_fetch has finished on two windows, one call having returned
\* after a page and the other having raised
C13_Witness ==
    /\ pf_pc = "done"
    /\ Len(windows) = 2
    /\ \E w \in DOMAIN fw : fw[w].pc = "returned" /\ fw[w].pages >= 1
    /\ \E w \in DOMAIN fw : fw[w].pc = "raised"

\* C14: parallel_fetch accepts the call the get command makes and, when it
\* has finished, hands back a triple of the summed new count, the summed
\* total count and the result set of the new records
C14_ReturnsTriple ==
    /\ GetKeywords \subseteq PF_Parameters
    /\ pf_pc = "done" =>
          /\ PF_Return.kind = "triple"
          /\ PF_Return.new = sum_new
          /\ PF_Return.total = sum_total

\* C15: while parallel_fetch is running its windows (from the plan to the
\* summary) no step writes to the collection: a call of fetch_window changes
\* nothing but its own locals
C15_NoWriteWhileFetching ==
    [][(pf_pc \in {"plan", "submit", "collect"}) => (db' = db)]_vars

\* the ids of the prod events the calls of the run have received
Fetched == UNION {fw[w].seen : w \in DOMAIN fw}

\* C16: the collection holds an id at most once and never loses one, it
\* gains only ids the run fetched, and when the run has finished it holds
\* the ids it held before together with every fetched id
C16_DedupMonotone ==
    /\ db0 \subseteq db
    /\ db \subseteq db0 \cup Fetched
    /\ pf_pc = "done" => db = db0 \cup Fetched

\* C37: no call of fetch_window of the run ends with the exception of an
\* insert_many that the unique index on id has rejected
C37_NoRejectedInsert ==
    pf_pc # "direct" => \A w \in DOMAIN fw : fw[w].exit # "raise"

\* C38: while the flag is not enabled no connection to MongoDB has been
\* opened, the collection is as it was, and every call of mongo_id_lookup,
\* store_events and load_event has ended with the RuntimeError
C38_NoMongoWithoutFlag ==
    rq.pc = "flag" /\ ~_mongo_enabled(rq.value) =>
        /\ rq.conn = 0
        /\ db = db0
        /\ rq.calls > 0 => rq.last = "RuntimeError"

\* ------------------------------------------------- filter_new: properties
\* s is t with some of its elements left out
RECURSIVE IsSubSeq(_, _)
IsSubSeq(s, t) ==
    IF s = <<>> THEN TRUE
    ELSE IF t = <<>> THEN FALSE
    ELSE IF Head(s) = Head(t) THEN IsSubSeq(Tail(s), Tail(t))
    ELSE IsSubSeq(s, Tail(t))

\* how often id i occurs in s
Occurrences(i, s) == Cardinality({k \in DOMAIN s : s[k] = i})

\* C17: filter_new returns the events of the batch whose id the collection
\* does not hold, each as often as the batch has it and in the order of the
\* batch, and none whose id the collection holds; an empty batch gives the
\* empty list without a query, any other batch costs one query
C17_FilterPartition ==
    fn.pc = "returned" =>
        /\ IsSubSeq(fn.out, fn.events)
        /\ \A i \in FilterIds :
              Occurrences(i, fn.out) =
                 IF i \in fn.coll THEN 0 ELSE Occurrences(i, fn.events)
        /\ fn.events = <<>> => fn.out = <<>> /\ fn.queries = 0
        /\ fn.events # <<>> => fn.queries = 1

\* a batch of three with a stored id between two new ones has been filtered
C17_Witness ==
    /\ fn.pc = "returned"
    /\ fn.events = <<2, 1, 2>>
    /\ fn.coll = {1}
    /\ fn.out = <<2, 2>>

\* --------------------------------------------- _normalize_event: properties
\* a record as the mapping it is, the order of its keys aside
AsMap(record) == {<<record[i].key, record[i].value>> : i \in DOMAIN record}

KeysOf(record) == {record[i].key : i \in DOMAIN record}

\* C20 as claimed: every key of the record is in lower case, holds only
\* letters, digits, '_', '.' and '-', and neither begins nor ends with '_'
C20_KeysSanitized ==
    nd.pc \in {"once", "twice"} =>
        \A k \in KeysOf(nd.out) :
            /\ \A j \in DOMAIN k :
                  k[j] \in {"a", "0", "1", "2", "3", "tags", "environment",
                            "_id", "_", ".", "-"}
            /\ k[1] \notin {"_", "_id"}
            /\ k[Len(k)] # "_"

\* the keys and list positions on the way to each leaf of a value, joined
\* with '_' as the document spells them
RECURSIVE RawPaths(_, _)
RawPaths(prefix, value) ==
    IF value.t = "dict"
    THEN UNION {RawPaths(prefix \o <<"_">> \o value.items[i].key,
                         value.items[i].value) : i \in DOMAIN value.items}
    ELSE IF value.t = "list"
    THEN UNION {RawPaths(prefix \o <<"_">> \o <<IndexText(i - 1)>>,
                         value.items[i]) : i \in DOMAIN value.items}
    ELSE {prefix}

\* the paths of the leaves of a document and the keys of its tags
DocPaths(doc) ==
    UNION {IF doc[i].key = TAGS
           THEN {doc[i].value.items[j].key : j \in DOMAIN doc[i].value.items}
                   \ {<<>>}
           ELSE IF doc[i].key = OID THEN {OID}
           ELSE RawPaths(doc[i].key, doc[i].value) : i \in DOMAIN doc}

\* k is p with each space and each dot replaced by '_', all else kept
SeparatorsReplaced(k, p) ==
    /\ Len(k) = Len(p)
    /\ \A j \in DOMAIN p :
          k[j] = IF p[j] = " " \/ p[j] = "." THEN "_" ELSE p[j]

\* C20, amended: every key of the record is the path to a leaf of the
\* document (its ancestor keys and list positions joined with '_'), or the
\* key of a tag, with each space and each dot replaced by '_' and every
\* other character kept as it is, upper case and '_' at the ends included;
\* and every such path but environment has its key in the record
C20_KeysJoined ==
    nd.pc \in {"once", "twice"} =>
        /\ \A k \in KeysOf(nd.out) :
              /\ \E p \in DocPaths(nd.doc) : SeparatorsReplaced(k, p)
              /\ \A j \in DOMAIN k : k[j] \notin {" ", "."}
        /\ \A p \in DocPaths(nd.doc) \ {ENVIRONMENT} :
              \E k \in KeysOf(nd.out) : SeparatorsReplaced(k, p)

\* the record of a document with a list that holds a dict and with a key
\* that has a space and a capital
C20_Witness ==
    /\ nd.pc = "once"
    /\ <<"a", "_", "1", "_", "a">> \in KeysOf(nd.out)
    /\ <<"a", "_", "B">> \in KeysOf(nd.out)
    /\ \E i \in DOMAIN nd.doc : nd.doc[i].key = <<"a", " ", "B">>

\* the values the record holds under the keys that are p with its spaces
\* and dots replaced
HeldUnder(record, p) ==
    {record[i].value : i \in {x \in DOMAIN record :
                                  SeparatorsReplaced(record[x].key, p)}}

C22_PathsUnique ==
    \A i, j \in DOMAIN mc.disk.manifest.rows :
        mc.disk.manifest.rows[i].path = mc.disk.manifest.rows[j].path => i = j

\* C23: the file at the manifest path is never torn, and a step changes it
\* only by the replace, which puts there the complete merged manifest: the
\* rows it held followed by the cached entries
C23_NeverTorn ==
    /\ [](mc.disk.manifest.state # "torn")
    /\ [][\/ mc'.disk.manifest = mc.disk.manifest
          \/ /\ mc.w.pc = "replace"
             /\ mc'.disk.manifest =
                   Whole(_read_manifest(mc.disk) \o mc.obj[mc.w.who].cache)]_vars

\* the process died while the second write of the manifest was under way:
\* the temporary file is torn, the manifest holds the rows of the first
C23_Witness ==
    /\ mc.crashes = 1
    /\ mc.disk.tmp.state = "torn"
    /\ mc.disk.manifest.state = "whole"
    /\ mc.disk.manifest.rows # <<>>

\* the paths of a list of entries
PathsOf(entries) == {entries[i].path : i \in DOMAIN entries}

\* C35: whenever no add or flush is under way every cache holds fewer
\* pending entries than its threshold, which is at least 1; the step that
\* ends a flush leaves the cache of the flushing object empty and the paths
\* of the entries it held in its seen paths; and an add changes the pending
\* lists, the seen paths or the files only by appending to one pending list
\* an entry whose path was not among the seen paths of that cache
C35_CacheBounded ==
    /\ [](mc.w.pc = "idle" =>
            \A c \in Caches :
                mc.obj[c].alive => /\ mc.obj[c].threshold >= 1
                                   /\ Len(mc.obj[c].cache) < mc.obj[c].threshold)
    /\ [][mc.w.pc = "replace" /\ mc'.w.pc = "idle" /\ mc'.crashes = mc.crashes =>
            /\ mc'.obj[mc.w.who].cache = <<>>
            /\ PathsOf(mc.obj[mc.w.who].cache) \subseteq mc'.obj[mc.w.who].seen]_vars
    /\ [][mc'.adds = mc.adds + 1 =>
            \/ /\ mc'.obj = mc.obj
               /\ mc'.disk = mc.disk
               /\ mc'.w = mc.w
            \/ \E c \in Caches :
                  /\ Len(mc'.obj[c].cache) = Len(mc.obj[c].cache) + 1
                  /\ SubSeq(mc'.obj[c].cache, 1, Len(mc.obj[c].cache))
                        = mc.obj[c].cache
                  /\ mc'.obj[c].cache[Len(mc'.obj[c].cache)].path
                        \notin mc.obj[c].seen
                  /\ mc'.obj[c].seen = mc.obj[c].seen
                  /\ mc'.disk = mc.disk
                  /\ \A o \in Caches \ {c} : mc'.obj[o] = mc.obj[o]]_vars

\* one cache was given the same path three times: the first add was
\* flushed, the other two were dropped
C35_Witness ==
    /\ mc.w.pc = "idle"
    /\ mc.crashes = 0
    /\ mc.adds = 3
    /\ Len(mc.disk.manifest.rows) = 1
    /\ \E c \in Caches :
          /\ mc.obj[c].alive
          /\ mc.obj[c].cache = <<>>
          /\ mc.obj[c].seen = PathsOf(mc.disk.manifest.rows)
          /\ \A o \in Caches \ {c} : ~mc.obj[o].alive

\* C34: when a call of _write_manifest has returned, the manifest holds the
\* rows it held when the call was made, in their order, followed by the
\* entries of the call in theirs; if the call had no entries the manifest
\* file is the one the call found, and absent if it was absent, and no
\* temporary file has been made; while a call is under way the manifest
\* file is still the one the call found
C34_AppendOnly ==
    /\ [](mc.w.pc = "idle" /\ mc.adds > 0 =>
            IF mc.w.entries = <<>>
            THEN mc.disk.manifest = mc.w.before
            ELSE mc.disk.manifest = Whole(mc.w.before.rows \o mc.w.entries))
    /\ [](mc.w.pc # "idle" => mc.disk.manifest = mc.w.before)
    /\ [][mc.w.pc = "idle" /\ mc'.w.pc = "idle" => mc'.disk = mc.disk]_vars

\* a call with two entries has returned on a manifest that held rows
C34_Witness ==
    /\ mc.w.pc = "idle"
    /\ Len(mc.w.entries) = 2
    /\ mc.w.entries[1] # mc.w.entries[2]
    /\ mc.w.before.rows # <<>>
    /\ mc.disk.manifest.rows = mc.w.before.rows \o mc.w.entries

\* ------------------------------------------- one migration: properties
\* the places of the rows with the id in the partition files
PlacesInFiles(files, id) ==
    UNION {{<<k, i>> : i \in {j \in DOMAIN files[k].items :
                                   files[k].items[j].id = id}}
              : k \in DOMAIN files}

\* C36: when the run is over, every wanted id is in one row of one partition
\* file and in one row of the manifest, the total is the number of wanted
\* ids, the buffers, the partial-file lists and the pending manifest rows
\* are empty, and there is no temporary directory
C36_WrittenOnce ==
    rq.pc = "once" /\ mg.pc = "done" =>
        /\ \A id \in rq.want :
              /\ Cardinality(PlacesInFiles(mg.files, id)) = 1
              /\ Cardinality({i \in DOMAIN mg.manifest :
                                  mg.manifest[i].id = id}) = 1
        /\ mg.totals = Cardinality(rq.want)
        /\ mg.buffers = <<>>
        /\ mg.partial = <<>>
        /\ mg.rows = <<>>
        /\ ~rq.tmp_root

\* ----------------------------------------- restarted migration: properties
\* C24: the file at a final path changes in one step only, the replace, and
\* then holds the rows it held before followed by the rows of the temporary
\* files of the target; no other step, and no crash, changes a partition file
C24_MergedInOneStep ==
    [][(mg'.files # mg.files) =>
          /\ mg.pc = "replace"
          /\ LET t == mg.partial[mg.i]
             IN  mg'.files = PutFile(mg.files, t.key,
                                     DictGet(mg.files, t.key) \o Concat(t.items))]_vars

\* the run died while the merged rows were being written: the output beside
\* the final path is partial, the partition file holds its old rows
C24_Witness ==
    /\ mg.pc = "dead"
    /\ mg.out.state = "torn"
    /\ DictGet(mg.files, mg.out.key) # <<>>
    /\ Len(mg.out.rows) >= Len(DictGet(mg.files, mg.out.key))

\* the rows the manifest records for a partition
RecordedFor(manifest, key) == SelectSeq(manifest, LAMBDA r : r.path = key)

\* the manifest and the partition files agree: a manifest row points at a
\* file, and the manifest records for each file as many rows as it holds
Agree(m) ==
    /\ \A k \in DOMAIN m.manifest : m.manifest[k].path \in DictKeys(m.files)
    /\ \A f \in DOMAIN m.files :
          Len(RecordedFor(m.manifest, m.files[f].key)) = Len(m.files[f].items)

\* no partition file holds two rows of one record id
IdsOnce(m) ==
    \A f \in DOMAIN m.files :
        \A a, b \in DOMAIN m.files[f].items :
            m.files[f].items[a].id = m.files[f].items[b].id => a = b

\* C25: when a run has returned normally, the manifest records for every
\* partition path as many rows as the partition file holds
C25_ManifestAgrees == mg.pc = "done" => Agree(mg)

\* C26: when a run that follows a crash has returned normally, every record
\* id is at most once in a partition file and the manifest agrees with the
\* partition files
C26_Recovered ==
    (mg.pc = "done" /\ mg.crashes > 0) => (IdsOnce(mg) /\ Agree(mg))

RowSet(files) ==
    {DictGet(files, MergeTarget)[i] : i \in DOMAIN DictGet(files, MergeTarget)}

\* C28: once a then b, b then a, and both in one pass have been written to
\* copies of one dataset, the three partition files hold the same set of
\* rows: those the file held before and those of the two batches
C28_OrderIndependent ==
    (mg.pc = "merge" /\ mg.ab.passes = 2 /\ mg.ba.passes = 2
                    /\ mg.one.passes = 1) =>
        /\ RowSet(mg.ab.files) = RowSet(mg.ba.files)
        /\ RowSet(mg.ab.files) = RowSet(mg.one.files)

\* all writes are done, the batches differ and the file existed before
C28_Witness ==
    /\ mg.pc = "merge"
    /\ mg.ab.passes = 2 /\ mg.ba.passes = 2 /\ mg.one.passes = 1
    /\ mg.a # mg.b
    /\ Len(DictGet(mg.one.files, MergeTarget)) = Len(mg.a) + Len(mg.b) + 1
    /\ DictGet(mg.ab.files, MergeTarget) # DictGet(mg.ba.files, MergeTarget)

\* ------------------------------------------------- commands: properties
\* C29: a command that finds no token sends no request and opens no
\* connection, and it exits with a status other than 0 and a message
C29_NoTokenFailsFast ==
    (cli.pc # "idle" /\ ~cli.opt.token) =>
        /\ cli.http = 0
        /\ cli.conn = 0
        /\ cli.pc \in {"token", "exited"}
        /\ cli.pc = "exited" => (cli.status # 0 /\ cli.message # "")

\* a command has exited for want of a token; when it is get, with the mongo
\* store enabled, which it would have connected to
C29_Witness ==
    /\ cli.pc = "exited"
    /\ ~cli.opt.token
    /\ cli.status = 1
    /\ cli.opt.cmd = "get" => (cli.opt.store = "mongo" /\ cli.opt.flag)

\* the resolved start is not before the end
InvalidRange(o) == SinceOf(o) >= UntilOf(o)

IsRange(days, first, last) ==
    /\ Len(days) = last - first + 1
    /\ \A i \in DOMAIN days : days[i] = first + i - 1

OneBound(a) == (a.start_date # 0) # (a.end_date # 0)

\* the result for both dates given, whatever num_days is: an error when
\* start_date is after end_date, else every day from start_date to end_date
BothDates(c) ==
    (c.args.start_date # 0 /\ c.args.end_date # 0) =>
        IF c.args.start_date > c.args.end_date
        THEN c.raised
        ELSE ~c.raised /\ IsRange(c.days, c.args.start_date, c.args.end_date)

\* the result for one date and num_days: num_days consecutive days that
\* begin at start_date or end at end_date
Anchored(c) ==
    /\ ~c.raised
    /\ Len(c.days) = c.args.num_days
    /\ \A i \in 1..(Len(c.days) - 1) : c.days[i + 1] = c.days[i] + 1
    /\ c.days # <<>> =>
          IF c.args.start_date # 0 THEN c.days[1] = c.args.start_date
          ELSE c.days[Len(c.days)] = c.args.end_date

\* C31 as claimed: both dates take precedence, and one date with num_days = n
\* gives exactly n consecutive days anchored at it, for every n given
C31_DayRangeAnyN ==
    cli.pc = "resolved" =>
        /\ BothDates(cli)
        /\ (OneBound(cli.args) /\ cli.args.given) => Anchored(cli)

\* C31: both dates take precedence over num_days, with an error when
\* start_date is after end_date; one date with num_days = n >= 1 gives
\* exactly n consecutive days anchored at it; with n = 0 the range is the
\* one of an absent num_days, with n < 0 it is empty
C31_DayRange ==
    cli.pc = "resolved" =>
        /\ BothDates(cli)
        /\ (OneBound(cli.args) /\ cli.args.given /\ cli.args.num_days >= 1)
              => Anchored(cli)
        /\ (OneBound(cli.args) /\ cli.args.given /\ cli.args.num_days = 0)
              => /\ ~cli.raised
                 /\ cli.days = _resolve_day_range(
                                   [cli.args EXCEPT !.given = FALSE]).days
        /\ (OneBound(cli.args) /\ cli.args.given /\ cli.args.num_days < 0)
              => (~cli.raised /\ cli.days = <<>>)

\* --end-date with --num-days 2 has given the two days that end there
C31_Witness ==
    /\ cli.pc = "resolved"
    /\ cli.args.start_date = 0
    /\ cli.args.end_date = MaxCal
    /\ cli.args.given /\ cli.args.num_days = 2
    /\ cli.days = <<MaxCal - 1, MaxCal>>

\* ------------------------------------------------- fetchers: properties
\* the sleep of a fetcher in a step that handled a response, given the
\* tenths of a second added to the wait of a 429
BackOff(before, after, resp, tenth) ==
    before.pc = "send" =>
        /\ (resp.status = 429 /\ resp.retry # -1)
              => after.slept = 10 * resp.retry + tenth
        /\ (resp.status = 429 /\ resp.retry = -1)
              => after.slept = 10 * (2 ^ before.errors) + tenth
        /\ resp.status = 500
              => after.slept = IF after.pc = "done" THEN 0
                               ELSE 10 * (before.errors + 1)
        /\ resp.status # 200 => after.errors = before.errors + 1

\* C32 as claimed: a 429 sleeps Retry-After seconds, or 2^e seconds with e
\* the counter before the increment; another failure sleeps e seconds with
\* e the counter after the increment, and nothing when it aborts
C32_BackOffExact ==
    [][(rq'.n # rq.n) =>
          /\ BackOff(rq.w, rq'.w, rq'.resp, 0)
          /\ BackOff(rq.e, rq'.e, rq'.resp, 0)]_vars

\* C32: as above, with a tenth of a second added to the wait of every 429
C32_BackOff ==
    [][(rq'.n # rq.n) =>
          /\ BackOff(rq.w, rq'.w, rq'.resp, 1)
          /\ BackOff(rq.e, rq'.e, rq'.resp, 1)]_vars

\* the second 429 in a row without Retry-After has been slept out for 2.1
\* seconds
C32_Witness ==
    /\ rq.pc = "pair"
    /\ rq.resp.status = 429 /\ rq.resp.retry = -1
    /\ rq.w.errors = 2
    /\ rq.w.slept = 21

\* C39: on the same responses the two fetchers have sent the same request
\* URL each time and have stopped after the same response
C39_SameRequests ==
    rq.pc = "pair" =>
        /\ rq.w.url = rq.e.url
        /\ rq.w.pc = rq.e.pc

\* ------------------------------------------ marked events: properties
\* C33: the call has counted no more new records than records, its record
\* count is the number of marked events on the successful pages so far, and
\* no event without the marker is among the events it kept, among the
\* documents it is about to insert, or in the collection
C33_OnlyMarked ==
    rq.pc = "marked" =>
        /\ fw[1].new_records <= fw[1].total_records
        /\ fw[1].total_records = rq.marked
        /\ 0 \notin fw[1].seen
        /\ \A i \in DOMAIN fw[1].new_docs : fw[1].new_docs[i] # 0
        /\ 0 \notin db

\* a page that held marked and unmarked events has been stored
C33_Witness ==
    /\ rq.pc = "marked"
    /\ rq.unmarked
    /\ rq.marked >= 1
    /\ fw[1].pc = "returned"
    /\ fw[1].new_records >= 1
    /\ db # db0

\* ------------------------------------------------- migration: properties
\* the loop has just read a document
ReadStep == mg.pc = "loop" /\ mg'.left = mg.left - 1

\* a record without an id, or none of whose date fields holds a timestamp
Undatable(doc) == \A k \in DOMAIN doc.dates : doc.dates[k] < 1

\* C18: when the loop reads a record that has no id or no date field holding
\* a timestamp, the record is not buffered, its id does not enter the dedup
\* cache, the counters stay as they were, nothing is written, and the loop
\* goes on with the next document
C18_DroppedSilently ==
    [][(ReadStep /\ (mg'.doc.id = 0 \/ Undatable(mg'.doc))) =>
            /\ mg'.pc = "loop"
            /\ mg'.buffers = mg.buffers
            /\ mg'.cache = mg.cache
            /\ mg'.pending = mg.pending
            /\ mg'.totals = mg.totals
            /\ mg'.partial = mg.partial /\ mg'.rows = mg.rows
            /\ mg'.files = mg.files /\ mg'.manifest = mg.manifest]_vars

\* after a record was buffered the loop has read one with an unknown id
\* whose only date value is no timestamp, and documents are left to read
C18_Witness ==
    /\ mg.pc = "loop"
    /\ mg.left = MaxDocs - 2
    /\ mg.doc.id # 0 /\ mg.doc.id \notin mg.cache
    /\ mg.doc.dates = <<-1, 0, 0, 0>>
    /\ mg.totals = 1 /\ mg.pending = 1

\* ------------------------------------------------- fetch_window: properties
Calls == DOMAIN fw

Running(w) == fw[w].pc \in {"send", "recv", "store"}

Ended(w) == fw[w].pc \in {"returned", "raised"}

\* the step of call w that handles a failed response
FailedStep(w) == fw[w].pc = "recv" /\ fw'[w].fails = fw[w].fails + 1

\* the step of call w that sends a request
SendStep(w) == fw[w].pc = "send" /\ fw'[w].pc = "recv"

\* the step of call w that stores a page without the insert raising
StoredStep(w) == fw[w].pc = "store" /\ fw'[w].pc \in {"send", "returned"}

\* C4: the error counter equals the number of failed responses (429 or
\* other) since the last successful page; a call is aborted exactly when
\* that number exceeds max_errors (the value in force after the default of
\* line 214), a call that goes on has not exceeded it, and the aborting step
\* returns, leaving the accumulated new and total counts as they were
C4_AbortOnBudget ==
    /\ [](\A w \in Calls :
            /\ fw[w].pc # "queued" => fw[w].errors = fw[w].fails
            /\ fw[w].exit = "abort" <=>
                  (fw[w].pc = "returned" /\ fw[w].fails > fw[w].maxerr)
            /\ Running(w) => fw[w].fails <= fw[w].maxerr)
    /\ [][\A w \in Calls :
            (FailedStep(w) /\ fw'[w].fails > fw[w].maxerr) =>
                /\ fw'[w].pc = "returned"
                /\ fw'[w].new_records = fw[w].new_records
                /\ fw'[w].total_records = fw[w].total_records]_vars

\* a call aborted after a successful page had been counted
C4_Witness ==
    \E w \in Calls :
        /\ fw[w].exit = "abort" /\ fw[w].pc = "returned"
        /\ fw[w].pages >= 1 /\ fw[w].new_records >= 1

\* C5: a failed response leaves the cursor, the new and total counts and the
\* consecutive-cached counter unchanged, and the request sent after a failed
\* response is for the URL of the failed request
C5_FailureFrame ==
    [][\A w \in Calls :
          /\ FailedStep(w) =>
                /\ fw'[w].cursor = fw[w].cursor
                /\ fw'[w].url = fw[w].url
                /\ fw'[w].new_records = fw[w].new_records
                /\ fw'[w].total_records = fw[w].total_records
                /\ fw'[w].consecutive_cached = fw[w].consecutive_cached
          /\ (SendStep(w) /\ fw[w].fails > 0) =>
                fw'[w].url = fw[w].url]_vars

\* a page reached through a cursor is being retried after a failure
C5_Witness ==
    \E w \in Calls :
        /\ fw[w].pc = "recv" /\ fw[w].fails > 0
        /\ fw[w].cursor \in Cursors /\ fw[w].total_records >= 1

\* the cached-limit stop fires on the page call w is storing
CachedFires(w) ==
    /\ fw[w].limit # 0
    /\ fw[w].new_docs = <<>>
    /\ fw[w].zero_run >= fw[w].limit

\* C6: when a successful page has been stored (the insert did not raise),
\* the call stops paginating exactly if the Link header has no next entry,
\* or that entry's results flag is "false", or the cached-limit stop fires;
\* a call that stops does not take over the cursor of the link
C6_LinkEndsPagination ==
    [][\A w \in Calls :
          StoredStep(w) =>
            /\ fw'[w].pc = "returned" <=>
                  \/ fw[w].link.rel # "next"
                  \/ fw[w].link.results = "false"
                  \/ CachedFires(w)
            /\ fw'[w].pc = "returned" => fw'[w].cursor = fw[w].cursor]_vars

\* a call ended by a next link with results "false" that carried a cursor
C6_Witness ==
    \E w \in Calls :
        /\ fw[w].pc = "returned" /\ fw[w].exit = "end"
        /\ fw[w].link.rel = "next" /\ fw[w].link.results = "false"
        /\ fw[w].link.cursor \in Cursors
        /\ fw[w].cursor # fw[w].link.cursor

\* C7: with cached_limit = N set, a call never goes on to another request
\* once N successful pages in a row had no new record: it returns when the
\* Nth such page is stored; storing a page with a new record resets the
\* consecutive counter, which otherwise equals the length of the run; with
\* cached_limit unset no call stops on the counter
C7_CachedLimit ==
    /\ [](\A w \in Calls :
            /\ (fw[w].limit # 0 /\ fw[w].zero_run >= fw[w].limit) =>
                  /\ fw[w].pc \in {"store", "returned"}
                  /\ fw[w].zero_run = fw[w].limit
                  /\ fw[w].pc = "returned" => fw[w].exit = "cached"
            /\ fw[w].pc \in {"send", "recv", "returned"} =>
                  fw[w].consecutive_cached = fw[w].zero_run
            /\ fw[w].exit = "cached" => fw[w].limit # 0)
    /\ [][\A w \in Calls :
            (StoredStep(w) /\ fw[w].new_docs # <<>>) =>
                fw'[w].consecutive_cached = 0]_vars

\* a call stopped by the cached limit while the server had pages left
C7_Witness ==
    \E w \in Calls :
        /\ fw[w].pc = "returned" /\ fw[w].exit = "cached"
        /\ fw[w].limit >= 2
        /\ fw[w].link.rel = "next" /\ fw[w].link.results = "true"
        /\ fw[w].pages < MaxPages

\* requests call w has sent since its last successful page
RequestsSinceOk(w) == fw[w].fails + (IF fw[w].pc = "recv" THEN 1 ELSE 0)

\* C8: every call ends (it returns, or leaves by the exception of a rejected
\* insert) whatever mix of 429, other failed and successful responses the
\* server sends over a finite chain of pages, and no call sends more than
\* max_errors + 1 requests in a row without a successful page, so against a
\* server that fails every request it returns after at most that many
C8_Terminates ==
    /\ <>(\A w \in Calls : Ended(w))
    /\ [](\A w \in Calls :
            /\ RequestsSinceOk(w) <= fw[w].maxerr + 1
            /\ (Ended(w) /\ fw[w].pages = 0) =>
                  (fw[w].pc = "returned" /\ fw[w].exit = "abort"))

\* a call that every request failed has returned
C8_Witness ==
    \E w \in Calls :
        /\ fw[w].pc = "returned" /\ fw[w].pages = 0
        /\ fw[w].fails = fw[w].maxerr + 1

\* C9: the first request of a call carries no cursor and every later request
\* carries exactly the cursor of the next link of the most recent successful
\* page
C9_CursorChained ==
    [][\A w \in Calls :
          SendStep(w) =>
            fw'[w].url = IF fw[w].pages = 0 THEN NONE
                         ELSE fw[w].link.cursor]_vars

====
